---- MODULE Spec2Model ----
(***************************************************************************)
(* A model of fast-xlsx-reader's sheet cursor (lib/FastXlsxSheetReader.js). *)
(* Every public method of the cursor is one action that runs the whole     *)
(* method, the nested read() calls and the event handlers it fires         *)
(* included.  The events fired and the grid cells fetched by the last call *)
(* are kept in `log`, its result (or the error it raised) in `ret`.        *)
(* The second half models the facade (lib/FastXlsxReader.js) that drives   *)
(* such a cursor: read() and createReader(), the header, the records and   *)
(* the output sink, with the calls it makes kept in `facade.calls`, and    *)
(* the date conversions of lib/xldates.js, applied to the value in `date`. *)
(***************************************************************************)
EXTENDS Integers, Sequences, FiniteSets, TLC

\* ------------------------------------------------------------------ bounds
MaxRow == 2        \* largest endRow of a sheet's used range
MaxStartRow == 1   \* largest startRow of a sheet's used range
MaxCol == 1        \* endCol of every sheet's used range
NumSheets == 2     \* number of sheets in the workbook
MaxCount == 3      \* largest count handed to readMany
MaxRegistrations == 1   \* handlers assigned with on, off and the setters

\* ------------------------------------------------- JavaScript value markers
NullSheet == 0 - 1     \* this._sheet === null (after destroy)
NoSheet == 0           \* this._sheet === undefined
Undefined == 0 - 99    \* an undefined number-valued field (_colIndex)
Absent == 0 - 1        \* sheet[addr] === undefined: no cell stored there
NeverAbort == 0 - 1    \* the record callback returns a falsy value for every row
AlwaysAbort == 0 - 2   \* the record callback returns a truthy value for every row

SUPPORTED_EVENTS == {"start", "cell", "beforerecord", "record", "end", "error"}

\* index | 0: ToInt32 of a number that is an integer.  Every integer the model
\* checker can represent lies in [-2^31, 2^31 - 1], where ToInt32 changes
\* nothing; the wrap-around above 2^31 - 1 is outside the arguments modelled.
ToInt32(n) == n

\* --------------------------------------------------------------- workbook
\* A sheet is its "!ref" used range; which cells of the range are stored is
\* a fixed sparse pattern, and a stored cell's value encodes its address.
Shapes ==
    { [sr |-> a, er |-> b, sc |-> c, ec |-> MaxCol] :
        a \in {0, MaxStartRow}, b \in {0, MaxRow}, c \in 0..1 }

\* The workbooks read: the first sheet starts at row 0 and column 0 and has
\* one row or MaxRow + 1 rows; the others start at row MaxStartRow and end at
\* row MaxRow, and start at column 0 or 1 in turn.
Books ==
    { b \in [1..NumSheets -> Shapes] :
        \A i \in 1..NumSheets :
            /\ b[i].sr <= b[i].er
            /\ b[i].sc = (i - 1) % 2
            /\ i = 1 => b[i].sr = 0
            /\ i > 1 => (b[i].sr = MaxStartRow /\ b[i].er = MaxRow) }

VARIABLES
    book,            \* the workbook: sheet number -> used range
    handlers,        \* the events that have a handler registered (on/onxxx)
    sheet,           \* this._sheet: NoSheet, NullSheet or a sheet number
    startRow, endRow, startCol, endCol,   \* this._startRow ...
    rowIndex,        \* this._rowIndex
    colIndex,        \* this._colIndex
    started,         \* this._started
    destroyed,       \* this._destroyed
    abortRequested,  \* this._abortRequested
    currentRow,      \* this._currentRow
    lastOp,          \* the last method called, with its arguments
    log,             \* events fired and cells fetched by the last call, in order
    ret,             \* what the last call returned or threw
    facade,          \* the FastXlsxReader that owns the cursor, if any
    registrations,   \* how many handlers on(), off() and the setters assigned
    date             \* the value handed to lib/xldates.js, and what came back

vars == <<book, handlers, sheet, startRow, endRow, startCol, endCol, rowIndex,
          colIndex, started, destroyed, abortRequested, currentRow, lastOp,
          log, ret, facade, registrations, date>>

\* sheet[encode_cell({r, c})] is defined
Stored(s, r, c) ==
    /\ s \in 1..NumSheets
    /\ r >= book[s].sr /\ r <= book[s].er
    /\ c >= book[s].sc /\ c <= book[s].ec
    /\ (r + c + s) % 3 # 0

\* cell.v of a stored cell
CellV(s, r, c) == 100 * s + 10 * r + c

\* ------------------------------------------------------------ return values
\* A row array is the cells the cursor pushed into it (cells: cell.v of a
\* stored cell, Absent for none) and, once a callback of the facade has
\* received it, its elements as that callback left them (js).
Val(k, n, cs, rs) ==
    [kind |-> k, num |-> n, cells |-> cs, rows |-> rs, js |-> <<>>]
UndefVal == Val("undefined", 0, <<>>, <<>>)
NullVal == Val("null", 0, <<>>, <<>>)
ThisVal == Val("this", 0, <<>>, <<>>)
NumVal(n) == Val("number", n, <<>>, <<>>)
BoolVal(b) == Val("boolean", IF b THEN 1 ELSE 0, <<>>, <<>>)
RowVal(cs) == Val("row", 0, cs, <<>>)
RowsVal(rs) == Val("rows", 0, <<>>, rs)
ThrowVal(e) == Val(e, 0, <<>>, <<>>)

\* an element of readMany's result: what one read() returned
Elem(v) == [kind |-> v.kind, num |-> v.num, cells |-> v.cells, js |-> v.js]

\* ------------------------------------------------------------------ events
Ev(e, a, b) == [ev |-> e, a |-> a, b |-> b, err |-> ""]
ErrEv(k) == [ev |-> "error", a |-> 0, b |-> 0, err |-> k]

\* the record callback of one call: fn says whether a function was passed
\* explicitly; the effective callback (the explicit one, else the registered
\* 'record' handler) returns a truthy value exactly for row abortAt
Cb(fn, abortAt) == [fn |-> fn, abortAt |-> abortAt]

\* !!onrecord.call(context, row, index)
Truthy(cb, index) == cb.abortAt = index \/ cb.abortAt = AlwaysAbort

\* ------------------------------------------------ the cursor as one record
Cur ==
    [sheet |-> sheet, startRow |-> startRow, endRow |-> endRow,
     startCol |-> startCol, endCol |-> endCol, rowIndex |-> rowIndex,
     colIndex |-> colIndex, started |-> started, destroyed |-> destroyed,
     abortRequested |-> abortRequested, currentRow |-> currentRow,
     log |-> <<>>, thrown |-> "", val |-> UndefVal]

Thrown(st) == st.thrown # ""

Fire(st, e) == [st EXCEPT !.log = Append(@, e)]

\* _handleError that calls the error handler twice
HandleError_Twice(st, kind) ==
    IF "error" \in handlers
    THEN Fire(Fire(st, ErrEv(kind)), ErrEv(kind))
    ELSE [st EXCEPT !.thrown = kind]

\* _handleError
HandleError(st, kind) ==
    IF "error" \in handlers
    THEN Fire(st, ErrEv(kind))
    ELSE [st EXCEPT !.thrown = kind]

\* _isDestroyed: the test, and the error it reports
IsDestroyed(st) == st.destroyed \/ st.sheet = NullSheet

ReportDestroyed(st, v) ==
    LET s1 == HandleError(st, "DestroyedResourceError")
    IN  IF Thrown(s1) THEN s1 ELSE [s1 EXCEPT !.val = v]

\* the column loop of read() that pushes nothing for a cell that is not stored
RECURSIVE ReadCells_SkipAbsent(_, _, _)
ReadCells_SkipAbsent(st, index, row) ==
    IF st.colIndex > st.endCol
    THEN [st EXCEPT !.val = RowVal(row)]
    ELSE IF st.sheet = NoSheet
    THEN [st EXCEPT !.thrown = "TypeError"]
    ELSE LET c == st.colIndex
             has == Stored(st.sheet, index, c)
             s1 == Fire(st, Ev("get", index, c))
             s2 == IF has /\ "cell" \in handlers
                   THEN Fire(s1, Ev("cell", index, c))
                   ELSE s1
         IN  ReadCells_SkipAbsent([s2 EXCEPT !.colIndex = c + 1], index,
                                  IF has
                                  THEN Append(row, CellV(st.sheet, index, c))
                                  ELSE row)

\* the column loop of read(): st.colIndex is the loop variable
RECURSIVE ReadCells(_, _, _)
ReadCells(st, index, row) ==
    IF st.colIndex > st.endCol
    THEN [st EXCEPT !.val = RowVal(row)]
    ELSE IF st.sheet = NoSheet
    THEN [st EXCEPT !.thrown = "TypeError"]
    ELSE LET c == st.colIndex
             has == Stored(st.sheet, index, c)
             s1 == Fire(st, Ev("get", index, c))
             s2 == IF has /\ "cell" \in handlers
                   THEN Fire(s1, Ev("cell", index, c))
                   ELSE s1
         IN  ReadCells([s2 EXCEPT !.colIndex = c + 1], index,
                       Append(row, IF has THEN CellV(st.sheet, index, c)
                                          ELSE Absent))

\* read() that forgets to record the abort request
Read_NoAbortFlag(st, index0, cb) ==
    IF IsDestroyed(st)
    THEN ReportDestroyed(st, NumVal(0))
    ELSE
    LET i0 == ToInt32(index0)
        index == IF i0 < 0 THEN st.endRow + i0 ELSE i0
    IN  IF index < 0 \/ index > st.endRow
        THEN LET s1 == HandleError(st, "BoundsError")
             IN  IF Thrown(s1) THEN s1 ELSE [s1 EXCEPT !.val = NullVal]
        ELSE
        LET hasFn == cb.fn \/ "record" \in handlers
            s1 == IF ~st.started
                  THEN LET t == [st EXCEPT !.started = TRUE]
                       IN  IF "start" \in handlers
                           THEN Fire(t, Ev("start", 0, 0))
                           ELSE t
                  ELSE st
            s2 == IF "beforerecord" \in handlers
                  THEN Fire(s1, Ev("beforerecord", index, 0))
                  ELSE s1
            s3 == ReadCells([s2 EXCEPT !.abortRequested = FALSE,
                                       !.colIndex = s2.startCol],
                            index, <<>>)
        IN  IF Thrown(s3) THEN s3
            ELSE IF hasFn
            THEN LET s4 == Fire(s3, Ev("record", index, 0))
                 IN  s4
            ELSE s3

\* read() that forgets to set _started
Read_NeverStarted(st, index0, cb) ==
    IF IsDestroyed(st)
    THEN ReportDestroyed(st, NumVal(0))
    ELSE
    LET i0 == ToInt32(index0)
        index == IF i0 < 0 THEN st.endRow + i0 ELSE i0
    IN  IF index < 0 \/ index > st.endRow
        THEN LET s1 == HandleError(st, "BoundsError")
             IN  IF Thrown(s1) THEN s1 ELSE [s1 EXCEPT !.val = NullVal]
        ELSE
        LET hasFn == cb.fn \/ "record" \in handlers
            s1 == IF ~st.started
                  THEN LET t == st
                       IN  IF "start" \in handlers
                           THEN Fire(t, Ev("start", 0, 0))
                           ELSE t
                  ELSE st
            s2 == IF "beforerecord" \in handlers
                  THEN Fire(s1, Ev("beforerecord", index, 0))
                  ELSE s1
            s3 == ReadCells([s2 EXCEPT !.abortRequested = FALSE,
                                       !.colIndex = s2.startCol],
                            index, <<>>)
        IN  IF Thrown(s3) THEN s3
            ELSE IF hasFn
            THEN LET s4 == Fire(s3, Ev("record", index, 0))
                 IN  IF Truthy(cb, index)
                     THEN [s4 EXCEPT !.abortRequested = TRUE]
                     ELSE s4
            ELSE s3

\* read() that resolves a negative index with the last row at -1
Read_LastRowMinusOne(st, index0, cb) ==
    IF IsDestroyed(st)
    THEN ReportDestroyed(st, NumVal(0))
    ELSE
    LET i0 == ToInt32(index0)
        index == IF i0 < 0 THEN st.endRow + i0 + 1 ELSE i0
    IN  IF index < 0 \/ index > st.endRow
        THEN LET s1 == HandleError(st, "BoundsError")
             IN  IF Thrown(s1) THEN s1 ELSE [s1 EXCEPT !.val = NullVal]
        ELSE
        LET hasFn == cb.fn \/ "record" \in handlers
            s1 == IF ~st.started
                  THEN LET t == [st EXCEPT !.started = TRUE]
                       IN  IF "start" \in handlers
                           THEN Fire(t, Ev("start", 0, 0))
                           ELSE t
                  ELSE st
            s2 == IF "beforerecord" \in handlers
                  THEN Fire(s1, Ev("beforerecord", index, 0))
                  ELSE s1
            s3 == ReadCells([s2 EXCEPT !.abortRequested = FALSE,
                                       !.colIndex = s2.startCol],
                            index, <<>>)
        IN  IF Thrown(s3) THEN s3
            ELSE IF hasFn
            THEN LET s4 == Fire(s3, Ev("record", index, 0))
                 IN  IF Truthy(cb, index)
                     THEN [s4 EXCEPT !.abortRequested = TRUE]
                     ELSE s4
            ELSE s3

\* read(index, onrecord)
Read(st, index0, cb) ==
    IF IsDestroyed(st)
    THEN ReportDestroyed(st, NumVal(0))
    ELSE
    LET i0 == ToInt32(index0)
        index == IF i0 < 0 THEN st.endRow + i0 ELSE i0
    IN  IF index < 0 \/ index > st.endRow
        THEN LET s1 == HandleError(st, "BoundsError")
             IN  IF Thrown(s1) THEN s1 ELSE [s1 EXCEPT !.val = NullVal]
        ELSE
        LET hasFn == cb.fn \/ "record" \in handlers
            s1 == IF ~st.started
                  THEN LET t == [st EXCEPT !.started = TRUE]
                       IN  IF "start" \in handlers
                           THEN Fire(t, Ev("start", 0, 0))
                           ELSE t
                  ELSE st
            s2 == IF "beforerecord" \in handlers
                  THEN Fire(s1, Ev("beforerecord", index, 0))
                  ELSE s1
            s3 == ReadCells([s2 EXCEPT !.abortRequested = FALSE,
                                       !.colIndex = s2.startCol],
                            index, <<>>)
        IN  IF Thrown(s3) THEN s3
            ELSE IF hasFn
            THEN LET s4 == Fire(s3, Ev("record", index, 0))
                 IN  IF Truthy(cb, index)
                     THEN [s4 EXCEPT !.abortRequested = TRUE]
                     ELSE s4
            ELSE s3

\* reset()
Reset(st) ==
    IF IsDestroyed(st)
    THEN ReportDestroyed(st, ThisVal)
    ELSE [st EXCEPT !.rowIndex = st.startRow - 1, !.val = ThisVal]

\* moveNext() that stops one row before the last
MoveNext_StopsEarly(st, cb) ==
    IF st.rowIndex + 1 < st.endRow
    THEN LET s1 == [st EXCEPT !.rowIndex = @ + 1]
             s2 == Read(s1, s1.rowIndex, cb)
         IN  IF Thrown(s2) THEN s2
             ELSE [s2 EXCEPT !.currentRow = [v |-> Elem(s2.val),
                                             sheet |-> s2.sheet,
                                             idx |-> s2.rowIndex],
                             !.val = BoolVal(TRUE)]
    ELSE [st EXCEPT !.val = BoolVal(FALSE)]

\* moveNext()
MoveNext(st, cb) ==
    IF st.rowIndex + 1 <= st.endRow
    THEN LET s1 == [st EXCEPT !.rowIndex = @ + 1]
             s2 == Read(s1, s1.rowIndex, cb)
         IN  IF Thrown(s2) THEN s2
             ELSE [s2 EXCEPT !.currentRow = [v |-> Elem(s2.val),
                                             sheet |-> s2.sheet,
                                             idx |-> s2.rowIndex],
                             !.val = BoolVal(TRUE)]
    ELSE [st EXCEPT !.val = BoolVal(FALSE)]

\* the current getter
Current(st, cb) ==
    IF st.currentRow.v.kind = "undefined"
    THEN Read(st, st.rowIndex, cb)
    ELSE [st EXCEPT !.val = [Val(st.currentRow.v.kind, st.currentRow.v.num,
                                 st.currentRow.v.cells, <<>>)
                             EXCEPT !.js = st.currentRow.v.js]]

\* readNext()
ReadNext(st, cb) ==
    LET s1 == MoveNext(st, cb)
    IN  IF Thrown(s1) THEN s1
        ELSE IF s1.val = BoolVal(TRUE) THEN Current(s1, cb)
        ELSE [s1 EXCEPT !.val = NullVal]

\* the two loops of readAll(): st.rowIndex is the loop variable and the
\* running rowCount is carried in st.val
RECURSIVE ReadAllBackwards(_, _)
ReadAllBackwards(st, cb) ==
    IF st.rowIndex > 0 - 1
    THEN LET s1 == Read(st, st.rowIndex, cb)
             s2 == [s1 EXCEPT !.val = NumVal(st.val.num + 1)]
         IN  IF Thrown(s1) THEN s1
             ELSE IF s2.abortRequested THEN s2
             ELSE ReadAllBackwards([s2 EXCEPT !.rowIndex = @ - 1], cb)
    ELSE st

RECURSIVE ReadAllForwards(_, _)
ReadAllForwards(st, cb) ==
    IF st.rowIndex <= st.endRow
    THEN LET s1 == Read(st, st.rowIndex, cb)
             s2 == [s1 EXCEPT !.val = NumVal(st.val.num + 1)]
         IN  IF Thrown(s1) THEN s1
             ELSE IF s2.abortRequested THEN s2
             ELSE ReadAllForwards([s2 EXCEPT !.rowIndex = @ + 1], cb)
    ELSE st

\* readAll() whose forward loop starts at row 0
ReadAll_FromZero(st, backwards, cb) ==
    IF ~(cb.fn \/ "record" \in handlers)
    THEN LET s1 == HandleError(st, "MissingHandlerError")
         IN  IF Thrown(s1) THEN s1 ELSE [s1 EXCEPT !.val = NumVal(0)]
    ELSE
    LET s1 == [st EXCEPT !.val = NumVal(st.startRow)]
        s2 == IF "start" \in handlers THEN Fire(s1, Ev("start", 0, 0)) ELSE s1
        s3 == IF backwards
              THEN ReadAllBackwards([s2 EXCEPT !.rowIndex = s2.endRow], cb)
              ELSE ReadAllForwards([s2 EXCEPT !.rowIndex = 0], cb)
    IN  IF Thrown(s3) THEN s3
        ELSE IF "end" \in handlers
        THEN Fire(s3, Ev("end", s3.val.num, 0))
        ELSE s3

\* readAll() that skips the end handler when the read was aborted
ReadAll_NoEndOnAbort(st, backwards, cb) ==
    IF ~(cb.fn \/ "record" \in handlers)
    THEN LET s1 == HandleError(st, "MissingHandlerError")
         IN  IF Thrown(s1) THEN s1 ELSE [s1 EXCEPT !.val = NumVal(0)]
    ELSE
    LET s1 == [st EXCEPT !.val = NumVal(st.startRow)]
        s2 == IF "start" \in handlers THEN Fire(s1, Ev("start", 0, 0)) ELSE s1
        s3 == IF backwards
              THEN ReadAllBackwards([s2 EXCEPT !.rowIndex = s2.endRow], cb)
              ELSE ReadAllForwards([s2 EXCEPT !.rowIndex = s2.startRow], cb)
    IN  IF Thrown(s3) THEN s3
        ELSE IF "end" \in handlers /\ ~s3.abortRequested
        THEN Fire(s3, Ev("end", s3.val.num, 0))
        ELSE s3

\* readAll() that fires the start handler before it looks for the callback
ReadAll_StartBeforeCheck(st, backwards, cb) ==
    LET s0 == IF "start" \in handlers THEN Fire(st, Ev("start", 0, 0)) ELSE st
    IN
    IF ~(cb.fn \/ "record" \in handlers)
    THEN LET s1 == HandleError(s0, "MissingHandlerError")
         IN  IF Thrown(s1) THEN s1 ELSE [s1 EXCEPT !.val = NumVal(0)]
    ELSE
    LET s1 == [s0 EXCEPT !.val = NumVal(s0.startRow)]
        s3 == IF backwards
              THEN ReadAllBackwards([s1 EXCEPT !.rowIndex = s1.endRow], cb)
              ELSE ReadAllForwards([s1 EXCEPT !.rowIndex = s1.startRow], cb)
    IN  IF Thrown(s3) THEN s3
        ELSE IF "end" \in handlers
        THEN Fire(s3, Ev("end", s3.val.num, 0))
        ELSE s3

\* readAll(backwards, onrecord)
ReadAll(st, backwards, cb) ==
    IF ~(cb.fn \/ "record" \in handlers)
    THEN LET s1 == HandleError(st, "MissingHandlerError")
         IN  IF Thrown(s1) THEN s1 ELSE [s1 EXCEPT !.val = NumVal(0)]
    ELSE
    LET s1 == [st EXCEPT !.val = NumVal(st.startRow)]
        s2 == IF "start" \in handlers THEN Fire(s1, Ev("start", 0, 0)) ELSE s1
        s3 == IF backwards
              THEN ReadAllBackwards([s2 EXCEPT !.rowIndex = s2.endRow], cb)
              ELSE ReadAllForwards([s2 EXCEPT !.rowIndex = s2.startRow], cb)
    IN  IF Thrown(s3) THEN s3
        ELSE IF "end" \in handlers
        THEN Fire(s3, Ev("end", s3.val.num, 0))
        ELSE s3

\* the two loops of readMany(): counter has already been incremented, rows is
\* the result so far
RECURSIVE ReadManyBackwards(_, _, _, _, _, _)
ReadManyBackwards(st, startIndex, count, counter, rows, cb) ==
    IF counter < count /\ startIndex - counter > 0 - 1
    THEN LET s1 == Read([st EXCEPT !.rowIndex = startIndex - counter],
                        startIndex - counter, cb)
         IN  IF Thrown(s1) THEN s1
             ELSE ReadManyBackwards(s1, startIndex, count, counter + 1,
                                    Append(rows, Elem(s1.val)), cb)
    ELSE [st EXCEPT !.val = RowsVal(rows)]

RECURSIVE ReadManyForwards(_, _, _, _, _, _)
ReadManyForwards(st, startIndex, count, counter, rows, cb) ==
    IF counter < count /\ startIndex + counter <= st.endRow
    THEN LET s1 == Read([st EXCEPT !.rowIndex = startIndex + counter],
                        startIndex + counter, cb)
         IN  IF Thrown(s1) THEN s1
             ELSE ReadManyForwards(s1, startIndex, count, counter + 1,
                                   Append(rows, Elem(s1.val)), cb)
    ELSE [st EXCEPT !.val = RowsVal(rows)]

\* readMany() whose counter starts one too far
ReadMany_CounterFromOne(st, startIndex0, count0, cb) ==
    LET startIndex == ToInt32(startIndex0)
        count == ToInt32(count0)
    IN  IF count < 0
        THEN LET s1 == HandleError(st, "CountError")
             IN  IF Thrown(s1) THEN s1 ELSE [s1 EXCEPT !.val = NullVal]
        ELSE IF startIndex < 0
        THEN ReadManyBackwards(st, st.endRow + startIndex, count, 1, <<>>, cb)
        ELSE ReadManyForwards(st, startIndex, count, 1, <<>>, cb)

\* readMany(startIndex, count)
ReadMany(st, startIndex0, count0, cb) ==
    LET startIndex == ToInt32(startIndex0)
        count == ToInt32(count0)
    IN  IF count < 0
        THEN LET s1 == HandleError(st, "CountError")
             IN  IF Thrown(s1) THEN s1 ELSE [s1 EXCEPT !.val = NullVal]
        ELSE IF startIndex < 0
        THEN ReadManyBackwards(st, st.endRow + startIndex, count, 0, <<>>, cb)
        ELSE ReadManyForwards(st, startIndex, count, 0, <<>>, cb)

\* a cell object, as readCell() returns it: v is its value
CellVal(v) == Val("cell", v, <<>>, <<>>)

\* x || y of readCell(): undefined and 0 are falsy
Falsy(x) == x = Undefined \/ x = 0

\* readCell(colIndex, rowIndex); Undefined stands for an omitted argument
ReadCell(st, colIndex0, rowIndex0) ==
    LET r == IF Falsy(rowIndex0)
             THEN (IF Falsy(st.rowIndex) THEN st.startRow ELSE st.rowIndex)
             ELSE rowIndex0
        c == IF Falsy(colIndex0)
             THEN (IF Falsy(st.colIndex) THEN st.startCol ELSE st.colIndex)
             ELSE colIndex0
    IN  IF st.sheet \in {NullSheet, NoSheet}
        THEN [st EXCEPT !.thrown = "TypeError"]
        ELSE [Fire(st, Ev("get", r, c)) EXCEPT
                !.val = IF Stored(st.sheet, r, c)
                        THEN CellVal(CellV(st.sheet, r, c))
                        ELSE UndefVal]

\* destroy()
Destroy(st) ==
    IF ~st.destroyed
    THEN [st EXCEPT !.sheet = NullSheet, !.destroyed = TRUE]
    ELSE st

\* the argument of loadSheet: a sheet's name, a sheet's number, or nothing
SheetArgs ==
    { [kind |-> k, i |-> i] : k \in {"name", "index"}, i \in 1..NumSheets }
        \cup { [kind |-> "none", i |-> 0] }

\* book.Sheets[...] of loadSheet: Sheets is keyed by sheet name
SheetOf(arg) ==
    IF arg.kind = "name" THEN arg.i
    ELSE IF arg.kind = "index" THEN NoSheet
    ELSE 1

\* loadSheet() that leaves _started as it was
LoadSheet_KeepsStarted(st, arg) ==
    IF IsDestroyed(st)
    THEN ReportDestroyed(st, ThisVal)
    ELSE
    LET s == SheetOf(arg)
    IN  IF s = NoSheet
        THEN [st EXCEPT !.sheet = NoSheet, !.thrown = "TypeError"]
        ELSE [st EXCEPT !.sheet = s,
                        !.log = Append(@, Ev("load", s, 0)),
                        !.rowIndex = book[s].sr - 1,
                        !.startRow = book[s].sr,
                        !.startCol = book[s].sc,
                        !.endRow = book[s].er,
                        !.endCol = book[s].ec,
                        !.val = ThisVal]

\* loadSheet(sheetnameOrIndex)
LoadSheet(st, arg) ==
    IF IsDestroyed(st)
    THEN ReportDestroyed(st, ThisVal)
    ELSE
    LET s == SheetOf(arg)
    IN  IF s = NoSheet
        THEN [st EXCEPT !.sheet = NoSheet, !.thrown = "TypeError"]
        ELSE [st EXCEPT !.sheet = s,
                        !.log = Append(@, Ev("load", s, 0)),
                        !.started = FALSE,
                        !.rowIndex = book[s].sr - 1,
                        !.startRow = book[s].sr,
                        !.startCol = book[s].sc,
                        !.endRow = book[s].er,
                        !.endCol = book[s].ec,
                        !.val = ThisVal]

\* the onsheet argument of readAllSheets: no function, a function that
\* returns a truthy value for sheet k, or one that never does
NoSheetCb == 0
SheetCbs == 0..(NumSheets + 1)

\* the loop of readAllSheets() that ignores what onsheet returns
RECURSIVE ReadAllSheetsLoop_IgnoresOnSheet(_, _, _, _, _, _)
ReadAllSheetsLoop_IgnoresOnSheet(st, i, total, onsheet, cb, backwards) ==
    IF i > NumSheets
    THEN [st EXCEPT !.val = NumVal(total)]
    ELSE
    LET s1 == LoadSheet(st, [kind |-> "name", i |-> i])
        s2 == IF onsheet # NoSheetCb THEN Fire(s1, Ev("sheet", i, 0)) ELSE s1
        s3 == ReadAll(s2, backwards, cb)
    IN  IF Thrown(s1) THEN s1
        ELSE IF Thrown(s3) THEN s3
        ELSE IF s3.abortRequested
        THEN [s3 EXCEPT !.abortRequested = FALSE,
                        !.val = NumVal(total + s3.val.num)]
        ELSE ReadAllSheetsLoop_IgnoresOnSheet(s3, i + 1, total + s3.val.num,
                                              onsheet, cb, backwards)

\* the loop of readAllSheets(): i is the loop variable (the i-th sheet name),
\* total is totalRows, s3 the cursor after readAll() of the sheet (computed
\* once)
RECURSIVE ReadAllSheetsLoop(_, _, _, _, _, _)
ReadAllSheetsLoop(st, i, total, onsheet, cb, backwards) ==
    IF i > NumSheets
    THEN [st EXCEPT !.val = NumVal(total)]
    ELSE
    LET s1 == LoadSheet(st, [kind |-> "name", i |-> i])
        s2 == IF onsheet # NoSheetCb THEN Fire(s1, Ev("sheet", i, 0)) ELSE s1
    IN  IF Thrown(s1) THEN s1
        ELSE IF onsheet = i
        THEN [s2 EXCEPT !.abortRequested = FALSE, !.val = NumVal(total)]
        ELSE CHOOSE r \in {
               IF Thrown(s3) THEN s3
               ELSE IF s3.abortRequested
               THEN [s3 EXCEPT !.abortRequested = FALSE,
                               !.val = NumVal(total + s3.val.num)]
               ELSE ReadAllSheetsLoop(s3, i + 1, total + s3.val.num, onsheet,
                                      cb, backwards)
               : s3 \in {ReadAll(s2, backwards, cb)} } : TRUE

\* readAllSheets() that leaves out the first sheet
ReadAllSheets_SkipsFirst(st, onsheet, cb, backwards) ==
    LET s1 == [st EXCEPT !.abortRequested = FALSE]
    IN  IF st.sheet = NullSheet
        THEN [s1 EXCEPT !.thrown = "TypeError"]
        ELSE ReadAllSheetsLoop(s1, 2, 0, onsheet, cb, backwards)

\* readAllSheets(onsheet, onrecord, backwards); this.sheetNames reads
\* this._book.SheetNames, and _book is null once the cursor is destroyed
ReadAllSheets(st, onsheet, cb, backwards) ==
    LET s1 == [st EXCEPT !.abortRequested = FALSE]
    IN  IF st.sheet = NullSheet
        THEN [s1 EXCEPT !.thrown = "TypeError"]
        ELSE ReadAllSheetsLoop(s1, 1, 0, onsheet, cb, backwards)

\* ------------------------------------------------------------------ actions
Op(name, i, n, back, cb) ==
    [op |-> name, i |-> i, n |-> n, back |-> back, fn |-> cb.fn,
     abortAt |-> cb.abortAt]

NoCb == Cb(FALSE, NeverAbort)

\* the state after a call that took the cursor to st0; a call starts when
\* the caller is done with the one before (every action states it first, so
\* that no argument is drawn for a call that cannot start)
Done(op, st0) ==
    /\ lastOp.op \in {"new", "idle"}
    /\ \E st \in {st0} :
        /\ sheet' = st.sheet
        /\ startRow' = st.startRow
        /\ endRow' = st.endRow
        /\ startCol' = st.startCol
        /\ endCol' = st.endCol
        /\ rowIndex' = st.rowIndex
        /\ colIndex' = st.colIndex
        /\ started' = st.started
        /\ destroyed' = st.destroyed
        /\ abortRequested' = st.abortRequested
        /\ currentRow' = st.currentRow
        /\ lastOp' = op
        /\ log' = st.log
        /\ ret' = IF Thrown(st) THEN ThrowVal(st.thrown) ELSE st.val
    /\ UNCHANGED <<book, handlers, facade, registrations, date>>

\* the arguments of the calls: row indices on both sides of the grid, a
\* negative count, a count of no row, one row and MaxCount rows, and the
\* row at which the record callback returns a truthy value
Indices == (0 - (MaxRow + 1))..(MaxRow + 1)
Counts == {0 - 1, 0, 1, MaxCount}
AbortRows == {NeverAbort} \cup 0..MaxRow

\* which events have a handler: every event but any of 'error' and 'record',
\* or the 'record' handler alone
HandlerConfigs ==
    { SUPPORTED_EVENTS \ h : h \in SUBSET {"error", "record"} }
        \cup { {"record"} }

NoRow == [v |-> Elem(UndefVal), sheet |-> NoSheet, idx |-> 0]

\* the cursor was made by new FastXlsxSheetReader(), not by a FastXlsxReader
NoFacade == [made |-> FALSE]

\* nothing was handed to lib/xldates.js directly
NoDate == [fn |-> "none"]

\* new FastXlsxSheetReader(filename, sheetname) followed by the registration
\* of the event handlers
Init ==
    /\ book \in Books
    /\ handlers \in HandlerConfigs
    /\ \E s \in 1..NumSheets :
        /\ sheet = s
        /\ startRow = book[s].sr
        /\ endRow = book[s].er
        /\ startCol = book[s].sc
        /\ endCol = book[s].ec
        /\ rowIndex = book[s].sr - 1
    /\ colIndex = Undefined
    /\ started = FALSE
    /\ destroyed = FALSE
    /\ abortRequested = FALSE
    /\ currentRow = NoRow
    /\ lastOp = Op("new", 0, 0, FALSE, NoCb)
    /\ log = <<>>
    /\ ret = UndefVal
    /\ facade = NoFacade
    /\ registrations = 0
    /\ date = NoDate

DoLoadSheet ==
    /\ lastOp.op \in {"new", "idle"}
    /\ \E arg \in SheetArgs :
        Done(Op("loadSheet:" \o arg.kind, arg.i, 0, FALSE, NoCb),
             LoadSheet(Cur, arg))

DoReset ==
    /\ lastOp.op \in {"new", "idle"}
    /\ Done(Op("reset", 0, 0, FALSE, NoCb), Reset(Cur))

DoMoveNext ==
    /\ lastOp.op \in {"new", "idle"}
    /\ \E a \in {NeverAbort, AlwaysAbort} :
        Done(Op("moveNext", 0, 0, FALSE, Cb(FALSE, a)),
             MoveNext(Cur, Cb(FALSE, a)))

DoRead ==
    /\ lastOp.op \in {"new", "idle"}
    /\ \E i \in Indices, f \in BOOLEAN, a \in {NeverAbort, AlwaysAbort} :
        Done(Op("read", i, 0, FALSE, Cb(f, a)), Read(Cur, i, Cb(f, a)))

DoReadMany ==
    /\ lastOp.op \in {"new", "idle"}
    /\ \E i \in Indices, n \in Counts, a \in {NeverAbort} :
        Done(Op("readMany", i, n, FALSE, Cb(FALSE, a)),
             ReadMany(Cur, i, n, Cb(FALSE, a)))

DoReadAll ==
    /\ lastOp.op \in {"new", "idle"}
    /\ \E b \in BOOLEAN, f \in BOOLEAN, a \in AbortRows :
        Done(Op("readAll", 0, 0, b, Cb(f, a)), ReadAll(Cur, b, Cb(f, a)))

DoReadNext ==
    /\ lastOp.op \in {"new", "idle"}
    /\ \E a \in {NeverAbort, AlwaysAbort} :
        Done(Op("readNext", 0, 0, FALSE, Cb(FALSE, a)),
             ReadNext(Cur, Cb(FALSE, a)))

DoCurrent ==
    /\ lastOp.op \in {"new", "idle"}
    /\ Done(Op("current", 0, 0, FALSE, NoCb), Current(Cur, NoCb))

\* readAllSheets(onsheet, onrecord, backwards): k is the onsheet argument, a
\* the row at which the record callback returns a truthy value
DoReadAllSheets ==
    /\ lastOp.op \in {"new", "idle"}
    /\ \E k \in SheetCbs, b \in BOOLEAN, f \in BOOLEAN,
       a \in {NeverAbort, MaxStartRow} :
        Done(Op("readAllSheets", k, 0, b, Cb(f, a)),
             ReadAllSheets(Cur, k, Cb(f, a), b))

\* readCell(colIndex, rowIndex), each argument omitted or naming the first
\* or the last column and row of the grid
DoReadCell ==
    /\ lastOp.op \in {"new", "idle"}
    /\ \E c \in {Undefined, 0, MaxCol}, r \in {Undefined, 0, MaxRow} :
        Done(Op("readCell", c, r, FALSE, NoCb), ReadCell(Cur, c, r))

DoDestroy ==
    /\ lastOp.op \in {"new", "idle"}
    /\ Done(Op("destroy", 0, 0, FALSE, NoCb), Destroy(Cur))

\* the event names given to on() and off(): the events, and a name that is
\* not an event
EventNames == SUPPORTED_EVENTS \cup {"unknown"}

\* this["on" + eventName] = value, which runs the setter of the event:
\* value is a function (fn) or undefined, both of which _ensureFunction
\* lets through
SetHandler(hs, eventName, fn) ==
    IF fn THEN hs \cup {eventName} ELSE hs \ {eventName}

\* the state after a call that left the registered handlers as hs, having
\* run n setters, and returned or threw v
Registered(op, hs, n, v) ==
    /\ lastOp.op \in {"new", "idle"}
    /\ handlers' = hs
    /\ registrations' = registrations + n
    /\ lastOp' = op
    /\ log' = <<>>
    /\ ret' = v
    /\ UNCHANGED <<book, sheet, startRow, endRow, startCol, endCol, rowIndex,
                   colIndex, started, destroyed, abortRequested, currentRow,
                   facade, date>>

\* on(eventName, callback) with a function for callback
DoOn ==
    /\ lastOp.op \in {"new", "idle"}
    /\ registrations < MaxRegistrations
    /\ \E e \in EventNames :
        IF e \in SUPPORTED_EVENTS
        THEN Registered(Op("on:" \o e, 0, 0, FALSE, Cb(TRUE, NeverAbort)),
                        SetHandler(handlers, e, TRUE), 1, ThisVal)
        ELSE Registered(Op("on:" \o e, 0, 0, FALSE, Cb(TRUE, NeverAbort)),
                        handlers, 0, ThrowVal("Error"))

\* off(eventName): the setter is given undefined; the delete that follows
\* finds no own property of that name
DoOff ==
    /\ lastOp.op \in {"new", "idle"}
    /\ registrations < MaxRegistrations
    /\ \E e \in EventNames :
        IF e \in SUPPORTED_EVENTS
        THEN Registered(Op("off:" \o e, 0, 0, FALSE, NoCb),
                        SetHandler(handlers, e, FALSE), 1, ThisVal)
        ELSE Registered(Op("off:" \o e, 0, 0, FALSE, NoCb),
                        handlers, 0, ThrowVal("Error"))

\* reader.onstart = value, reader.oncell = value, ...: the setter of each
\* event, given a function or undefined
DoSetHandler ==
    /\ lastOp.op \in {"new", "idle"}
    /\ registrations < MaxRegistrations
    /\ \E e \in SUPPORTED_EVENTS, fn \in BOOLEAN :
        Registered(Op("set:on" \o e, 0, 0, FALSE, Cb(fn, NeverAbort)),
                   SetHandler(handlers, e, fn), 1, UndefVal)

\* the caller is done with the result and the events of the last call; the
\* next call starts from here
Return ==
    /\ lastOp.op \notin {"new", "idle"}
    /\ lastOp' = Op("idle", 0, 0, FALSE, NoCb)
    /\ log' = <<>>
    /\ ret' = UndefVal
    /\ UNCHANGED <<book, handlers, sheet, startRow, endRow, startCol, endCol,
                   rowIndex, colIndex, started, destroyed, abortRequested,
                   currentRow, facade, registrations, date>>

Next ==
    \/ DoLoadSheet
    \/ DoReset
    \/ DoMoveNext
    \/ DoRead
    \/ DoReadMany
    \/ DoReadAll
    \/ DoReadNext
    \/ DoCurrent
    \/ DoReadAllSheets
    \/ DoReadCell
    \/ DoDestroy
    \/ DoOn
    \/ DoOff
    \/ DoSetHandler
    \/ Return

Spec == Init /\ [][Next]_vars

\* ---------------------------------------------------- reading the last call
IsRecord(e) == e.ev = "record"
IsStart(e) == e.ev = "start"
IsEnd(e) == e.ev = "end"
IsGet(e) == e.ev = "get"
IsFired(e) == e.ev # "get"

\* the row indices handed to the record callback by the last call, in order
Visited ==
    LET r == SelectSeq(log, IsRecord)
    IN  [k \in 1..Len(r) |-> r[k].a]

Upto(a, b) == [k \in 1..(b - a + 1) |-> a + k - 1]
Downto(b, a) == [k \in 1..(b - a + 1) |-> b - k + 1]
Min(a, b) == IF a < b THEN a ELSE b

\* a sheet is loaded and the cursor is alive
Loaded == sheet \in 1..NumSheets /\ ~destroyed

\* the last call was readAll with a usable record callback
ReadAllCalled ==
    /\ lastOp.op = "readAll"
    /\ (lastOp.fn \/ "record" \in handlers)

\* the cells of row r of sheet s, over the columns of its used range
RowCells(s, r) ==
    [k \in 1..(book[s].ec - book[s].sc + 1) |->
        IF Stored(s, r, book[s].sc + k - 1)
        THEN CellV(s, r, book[s].sc + k - 1)
        ELSE Absent]

\* ------------------------------------------------------------------ claims

\* C1: on a loaded sheet, readAll(false) with a record callback that never
\* returns a truthy value hands the callback every row index from startRow to
\* endRow exactly once, in increasing order.
C1_ForwardVisitsRange ==
    (ReadAllCalled /\ ~lastOp.back /\ lastOp.abortAt = NeverAbort /\ Loaded)
        => Visited = Upto(startRow, endRow)

\* a forward readAll over a range of several rows that starts below row 0
C1_Witness ==
    /\ ReadAllCalled /\ ~lastOp.back /\ lastOp.abortAt = NeverAbort /\ Loaded
    /\ startRow > 0 /\ endRow > startRow
    /\ Visited = Upto(startRow, endRow)

\* C2 (as claimed): on a loaded sheet, readAll(true) with a callback that
\* never aborts visits exactly startRow..endRow, in decreasing order, also
\* when startRow > 0.
C2_BackwardVisitsRange ==
    (ReadAllCalled /\ lastOp.back /\ lastOp.abortAt = NeverAbort /\ Loaded)
        => Visited = Downto(endRow, startRow)

\* C3: once the record callback has returned a truthy value for a row during
\* readAll, no further row is handed to the callback and no further cell is
\* fetched from the grid: only the end event follows.
C3_AbortStopsIteration ==
    ReadAllCalled =>
        \A k \in 1..Len(log) :
            (IsRecord(log[k]) /\ Truthy(lastOp, log[k].a))
                => \A j \in (k + 1)..Len(log) : IsEnd(log[j])

\* a readAll aborted on a row that is not the last one of the iteration
C3_Witness ==
    /\ ReadAllCalled /\ Loaded
    /\ Len(Visited) >= 1
    /\ Len(Visited) < endRow - startRow + 1
    /\ Truthy(lastOp, Visited[Len(Visited)])
    /\ \E k \in 1..Len(log) : IsGet(log[k])

\* C4 (as claimed): the number readAll returns and the number it hands to the
\* end handler are both the number of rows visited in the call.
C4_CountIsRowsVisited ==
    (ReadAllCalled /\ Loaded) =>
        /\ ret = NumVal(Len(Visited))
        /\ \A k \in 1..Len(log) : IsEnd(log[k]) => log[k].a = Len(Visited)

\* C5 (as claimed): a readAll with a usable callback fires the registered
\* start handler exactly once, before the first row is processed.
C5_StartFiredOnce ==
    (ReadAllCalled /\ Loaded /\ "start" \in handlers) =>
        /\ Len(SelectSeq(log, IsStart)) = 1
        /\ IsStart(log[1])

\* C6: a readAll with a usable callback that returns to its caller has fired
\* the registered end handler exactly once, after everything else of the call
\* (so after the last visited row's record callback), aborted or not.
C6_EndFiredOnceLast ==
    (ReadAllCalled /\ ret.kind = "number" /\ "end" \in handlers) =>
        /\ Len(SelectSeq(log, IsEnd)) = 1
        /\ IsEnd(log[Len(log)])

\* an aborted readAll whose end event follows the aborting row's record event
C6_Witness ==
    /\ ReadAllCalled /\ Loaded /\ "end" \in handlers
    /\ Len(log) >= 2
    /\ IsEnd(log[Len(log)])
    /\ IsRecord(log[Len(log) - 1])
    /\ Truthy(lastOp, log[Len(log) - 1].a)
    /\ Len(Visited) < endRow - startRow + 1

\* the cell events of row r of sheet s: one per stored cell, in column order
CellEvents(s, r) ==
    LET all == [k \in 1..(book[s].ec - book[s].sc + 1) |->
                    Ev("cell", r, book[s].sc + k - 1)]
        IsStored(e) == Stored(s, e.a, e.b)
    IN  SelectSeq(all, IsStored)

\* the row index read(i) resolves i to, as the claims state it
Effective(i) == IF i < 0 THEN endRow + i ELSE i

CursorReads == {"read", "readMany", "moveNext"}

\* C7: a successful read(index) fires start if and only if no row was read
\* since the last loadSheet, then beforerecord with the row index, then one
\* cell event per stored cell, then the record callback with the row index;
\* over read/readMany/moveNext calls start fires once per load: exactly when
\* the first row is read, and never again until the next loadSheet.
C7_ReadEventOrder ==
    [][ /\ (lastOp'.op = "read" /\ ret'.kind = "row") =>
            SelectSeq(log', IsFired) =
                (IF ~started /\ "start" \in handlers
                    THEN <<Ev("start", 0, 0)>> ELSE <<>>)
                \o (IF "beforerecord" \in handlers
                    THEN <<Ev("beforerecord", Effective(lastOp'.i), 0)>>
                    ELSE <<>>)
                \o (IF "cell" \in handlers
                    THEN CellEvents(sheet, Effective(lastOp'.i)) ELSE <<>>)
                \o (IF lastOp'.fn \/ "record" \in handlers
                    THEN <<Ev("record", Effective(lastOp'.i), 0)>>
                    ELSE <<>>)
        /\ (lastOp'.op \in CursorReads /\ "start" \in handlers) =>
            Len(SelectSeq(log', IsStart)) =
                (IF ~started /\ started' THEN 1 ELSE 0)
        /\ (lastOp'.op \in CursorReads) =>
            /\ started => started'
            /\ (\E k \in 1..Len(log') : IsGet(log'[k])) => started'
      ]_vars

\* the first read after a load, by a negative index, of a row with a stored
\* cell: start, beforerecord, cell and record were all fired
C7_Witness ==
    /\ lastOp.op = "read" /\ lastOp.i < 0 /\ ret.kind = "row"
    /\ Len(log) >= 4
    /\ IsStart(log[1])
    /\ log[2].ev = "beforerecord"
    /\ \E k \in 1..Len(log) : log[k].ev = "cell"
    /\ IsRecord(log[Len(log)])
    /\ log[Len(log)].a = endRow + lastOp.i

\* C8: read(index) on a loaded sheet resolves a negative index to
\* endRow + index first; if the resolved index is below 0 or above endRow the
\* call reports one BoundsError (to the error handler, returning null, or by
\* throwing it when there is none), fires nothing else and leaves rowIndex and
\* started as they were; otherwise it reads the row at the resolved index.
C8_OutOfBoundsRead ==
    [][ (lastOp'.op = "read" /\ Loaded) =>
            IF Effective(lastOp'.i) < 0 \/ Effective(lastOp'.i) > endRow
            THEN /\ \/ ret' = NullVal /\ log' = <<ErrEv("BoundsError")>>
                    \/ /\ ret' = ThrowVal("BoundsError")
                       /\ log' = <<>>
                       /\ "error" \notin handlers
                 /\ rowIndex' = rowIndex
                 /\ started' = started
            ELSE /\ ret' = RowVal(RowCells(sheet, Effective(lastOp'.i)))
                 /\ \A k \in 1..Len(log') :
                        log'[k].ev \in {"beforerecord", "get", "cell", "record"}
                            => log'[k].a = Effective(lastOp'.i)
      ]_vars

\* a negative index that resolves below row 0, on a cursor that has not read
\* a row yet: the error went to the handler and null came back
C8_Witness ==
    /\ lastOp.op = "read" /\ lastOp.i < 0 /\ Loaded
    /\ endRow + lastOp.i < 0
    /\ ret = NullVal
    /\ log = <<ErrEv("BoundsError")>>
    /\ ~started
    /\ rowIndex = startRow - 1

\* C9 (as claimed): negative start indices count from the end with the last
\* row at -1, so readMany(-1, 3) returns the rows endRow, endRow - 1,
\* endRow - 2, and fewer than 3 only when the sheet has fewer rows.
C9_LastThreeRows ==
    (lastOp.op = "readMany" /\ lastOp.i = 0 - 1 /\ lastOp.n = 3 /\ Loaded) =>
        /\ ret.kind = "rows"
        /\ Len(ret.rows) = Min(3, endRow - startRow + 1)
        /\ \A k \in 1..Len(ret.rows) :
               ret.rows[k] = Elem(RowVal(RowCells(sheet, endRow - k + 1)))

\* the number of rows between position s and the boundary of the grid (row 0
\* backwards, row endRow forwards)
Available(s, backwards) ==
    IF backwards
    THEN (IF s >= 0 THEN s + 1 ELSE 0)
    ELSE (IF s <= endRow THEN endRow - s + 1 ELSE 0)

\* C10: on a loaded sheet, readMany(startIndex, count) with count >= 0
\* returns min(count, rows available from the start position to the grid
\* boundary) rows, the consecutive rows from the start position in the
\* reading direction (the start position being read()'s resolution of
\* startIndex, backwards for a negative startIndex); with count < 0 it
\* reports one error, returns null and fetches no cell.
C10_ReadManyLength ==
    (lastOp.op = "readMany" /\ Loaded) =>
        IF lastOp.n >= 0
        THEN LET back == lastOp.i < 0
                 s == Effective(lastOp.i)
             IN  /\ ret.kind = "rows"
                 /\ Len(ret.rows) = Min(lastOp.n, Available(s, back))
                 /\ \A k \in 1..Len(ret.rows) :
                        ret.rows[k] = Elem(RowVal(RowCells(sheet,
                            IF back THEN s - (k - 1) ELSE s + (k - 1))))
                 /\ "record" \in handlers =>
                        Visited = [k \in 1..Len(ret.rows) |->
                            IF back THEN s - (k - 1) ELSE s + (k - 1)]
        ELSE /\ \/ ret = NullVal /\ log = <<ErrEv("CountError")>>
                \/ ret = ThrowVal("CountError") /\ log = <<>>

\* a backward readMany that stopped at the grid boundary before count rows
C10_Witness ==
    /\ lastOp.op = "readMany" /\ Loaded
    /\ lastOp.i < 0 /\ lastOp.n >= 2
    /\ ret.kind = "rows"
    /\ Len(ret.rows) >= 1
    /\ Len(ret.rows) < lastOp.n

\* C11: on a loaded sheet, for every row index i in [startRow, endRow],
\* read(i) returns a row of exactly endCol - startCol + 1 entries whose k-th
\* entry is the value of the cell stored at (i, startCol + k - 1), or the
\* absent marker when the grid stores no cell there.
C11_ReadReturnsRow ==
    (lastOp.op = "read" /\ Loaded
        /\ lastOp.i >= startRow /\ lastOp.i <= endRow) =>
        /\ ret.kind = "row"
        /\ Len(ret.cells) = endCol - startCol + 1
        /\ \A k \in 1..Len(ret.cells) :
               ret.cells[k] = IF Stored(sheet, lastOp.i, startCol + k - 1)
                              THEN CellV(sheet, lastOp.i, startCol + k - 1)
                              ELSE Absent

\* read(i) of a row of the range that has a stored cell and a missing one
C11_Witness ==
    /\ lastOp.op = "read" /\ Loaded
    /\ lastOp.i >= startRow /\ lastOp.i <= endRow
    /\ ret.kind = "row"
    /\ \E k \in 1..Len(ret.cells) : ret.cells[k] = Absent
    /\ \E k \in 1..Len(ret.cells) : ret.cells[k] # Absent

\* C12: on a loaded sheet with rowIndex at or after the before-first
\* sentinel startRow - 1 (where loadSheet and reset put it), a moveNext or
\* readNext call succeeds exactly while rowIndex < endRow: it then advances
\* rowIndex by one, makes current the row at the new rowIndex and returns
\* true (readNext: that row). Otherwise moveNext returns false (readNext
\* null) and rowIndex and current are unchanged. From the sentinel that is
\* endRow - startRow + 1 successes, rows startRow..endRow in order, and only
\* failures afterwards.
C12_MoveNextAdvances ==
    [][ (lastOp'.op \in {"moveNext", "readNext"} /\ Loaded
            /\ rowIndex >= startRow - 1) =>
          IF rowIndex < endRow
          THEN /\ rowIndex' = rowIndex + 1
               /\ currentRow'.v = Elem(RowVal(RowCells(sheet, rowIndex + 1)))
               /\ ret' = IF lastOp'.op = "moveNext"
                         THEN BoolVal(TRUE)
                         ELSE RowVal(RowCells(sheet, rowIndex + 1))
          ELSE /\ rowIndex' = rowIndex
               /\ currentRow' = currentRow
               /\ ret' = IF lastOp'.op = "moveNext"
                         THEN BoolVal(FALSE)
                         ELSE NullVal
      ]_vars

\* readNext has just delivered the last row of a range of several rows
C12_Witness ==
    /\ lastOp.op = "readNext" /\ Loaded
    /\ endRow > startRow
    /\ rowIndex = endRow
    /\ ret = RowVal(RowCells(sheet, endRow))
    /\ currentRow.v = Elem(ret)

\* the last call fetched no cell from the grid and fired no row event
NoGridAccess ==
    \A k \in 1..Len(log) : log[k].ev \notin {"get", "cell", "record"}

\* the last call reported error e: to the error handler when one is
\* registered, otherwise by throwing it
Reported(e) ==
    IF "error" \in handlers
    THEN ret.kind \in {"number", "this"} /\ \E k \in 1..Len(log) : log[k] = ErrEv(e)
    ELSE ret = ThrowVal(e) /\ \A k \in 1..Len(log) : log[k].ev # "error"

\* C13 (as claimed): after destroy(), any read, reset or readAll call reports
\* a DestroyedResourceError (to the error handler if one is registered,
\* otherwise by raising it) and performs no grid access.
C13_DestroyedReports ==
    (destroyed /\ lastOp.op \in {"read", "reset", "readAll"}) =>
        /\ Reported("DestroyedResourceError")
        /\ NoGridAccess

CursorOps ==
    {"loadSheet:name", "loadSheet:index", "loadSheet:none", "reset",
     "moveNext", "readNext", "read", "readMany", "readAll"}

\* C14 (as claimed): once the cursor is destroyed, no loadSheet, reset,
\* moveNext, readNext, read, readMany or readAll call makes destroyed false
\* again, and every such call fails: moveNext does not return true, no call
\* returns a row or a non-zero row count, and rowIndex does not change, with
\* or without an error handler.
C14_DestroyedTerminal ==
    [][ (destroyed /\ lastOp'.op \in CursorOps) =>
            /\ destroyed'
            /\ rowIndex' = rowIndex
            /\ ret' # BoolVal(TRUE)
            /\ ret'.kind # "row"
            /\ ~(ret'.kind = "number" /\ ret'.num # 0)
      ]_vars

\* C15 (as claimed): in every state between cursor operations on a loaded
\* sheet, whatever calls were made before, rowIndex lies in
\* [startRow - 1, endRow].
C15_RowIndexInRange ==
    Loaded => (rowIndex >= startRow - 1 /\ rowIndex <= endRow)

\* C16: a loadSheet call that returns on a cursor that is not destroyed has
\* loaded the sheet asked for (the named one, the first one when no argument
\* is given), recomputed the range from that sheet's used range, set rowIndex
\* to startRow - 1 of the new range and cleared started; and a successful
\* read on a cursor whose started is clear fires the start handler first, so
\* the next successful read after the load fires it again.
C16_LoadSheetResets ==
    [][ /\ (lastOp'.op \in {"loadSheet:name", "loadSheet:index",
                            "loadSheet:none"}
                /\ ~destroyed /\ ret'.kind = "this") =>
            /\ sheet' = (IF lastOp'.op = "loadSheet:none" THEN 1
                         ELSE lastOp'.i)
            /\ lastOp'.op # "loadSheet:index"
            /\ startRow' = book[sheet'].sr /\ endRow' = book[sheet'].er
            /\ startCol' = book[sheet'].sc /\ endCol' = book[sheet'].ec
            /\ rowIndex' = startRow' - 1
            /\ ~started'
        /\ (lastOp'.op = "read" /\ ret'.kind = "row" /\ ~started
                /\ "start" \in handlers) =>
            /\ log'[1] = Ev("start", 0, 0)
            /\ started'
      ]_vars

\* a sheet whose range starts after row 0 has just been loaded by name on a
\* cursor that had read rows before
C16_Witness ==
    /\ lastOp.op = "loadSheet:name" /\ ret = ThisVal /\ Loaded
    /\ colIndex # Undefined
    /\ startRow > 0
    /\ rowIndex = startRow - 1
    /\ ~started

\* C17 (as claimed): on a cursor that is not destroyed, loadSheet with the
\* number of a sheet loads that sheet of the workbook, as loadSheet with its
\* name does, and loadSheet without argument loads the first sheet.
C17_LoadSheetByIndex ==
    (lastOp.op \in {"loadSheet:index", "loadSheet:none"} /\ ~destroyed) =>
        LET s == IF lastOp.op = "loadSheet:none" THEN 1 ELSE lastOp.i
        IN  /\ ret = ThisVal
            /\ sheet = s
            /\ startRow = book[s].sr /\ endRow = book[s].er
            /\ startCol = book[s].sc /\ endCol = book[s].ec
            /\ rowIndex = startRow - 1

\* readAll() without a usable record callback
ReadAllUncalled == lastOp.op = "readAll" /\ ~ReadAllCalled

\* C18: readAll called with no explicit record callback and no registered
\* record handler reports one MissingHandlerError (to the error handler,
\* returning 0, or by throwing it when there is none), fires neither start
\* nor end, visits no row, fetches no cell and leaves rowIndex unchanged.
C18_ReadAllNeedsCallback ==
    [][ (lastOp'.op = "readAll" /\ ~lastOp'.fn /\ "record" \notin handlers) =>
            /\ \/ /\ "error" \in handlers
                  /\ ret' = NumVal(0)
                  /\ log' = <<ErrEv("MissingHandlerError")>>
               \/ /\ "error" \notin handlers
                  /\ ret' = ThrowVal("MissingHandlerError")
                  /\ log' = <<>>
            /\ rowIndex' = rowIndex
            /\ started' = started
      ]_vars

\* readAll() without any record callback on a loaded sheet with the start,
\* end and error handlers registered: only the error handler was called
C18_Witness ==
    /\ ReadAllUncalled /\ Loaded
    /\ {"start", "end", "error"} \subseteq handlers
    /\ log = <<ErrEv("MissingHandlerError")>>
    /\ ret = NumVal(0)

IsLoad(e) == e.ev = "load"

\* the sheets loaded by the last call, in order
LoadedSheets ==
    LET l == SelectSeq(log, IsLoad)
    IN  [k \in 1..Len(l) |-> l[k].a]

\* the part of the last call's log that belongs to the k-th load: from that
\* load up to the next one, or to the end of the log
LoadPos(k) ==
    CHOOSE p \in 1..Len(log) :
        /\ IsLoad(log[p])
        /\ Len(SelectSeq(SubSeq(log, 1, p), IsLoad)) = k
Segment(k) ==
    SubSeq(log, LoadPos(k),
           IF k = Len(LoadedSheets) THEN Len(log) ELSE LoadPos(k + 1) - 1)

\* the rows handed to the record callback in the k-th segment, in order
SheetVisited(k) ==
    LET r == SelectSeq(Segment(k), IsRecord)
    IN  [j \in 1..Len(r) |-> r[j].a]

\* what readAll returned for the k-th segment, reading sheet s: its counter
\* starts at startRow and is incremented once per row visited
SheetCount(k, s) == book[s].sr + Len(SheetVisited(k))

RECURSIVE SumCounts(_)
SumCounts(k) == IF k = 0 THEN 0 ELSE SumCounts(k - 1) + SheetCount(k, LoadedSheets[k])

\* the last call was readAllSheets on a live cursor with a usable record
\* callback
ReadAllSheetsCalled ==
    /\ lastOp.op = "readAllSheets"
    /\ ~destroyed
    /\ (lastOp.fn \/ "record" \in handlers)

\* C19: with an onsheet callback and a record callback that never return a
\* truthy value, readAllSheets loads every sheet exactly once, in workbook
\* order, and after each load reads that sheet fully with one readAll (every
\* row of its range goes to the record callback exactly once before the next
\* load, in increasing order when reading forwards, and the end handler gets
\* that readAll's count); it returns the sum of the per-sheet readAll counts.
C19_ReadAllSheetsVisitsAll ==
    (ReadAllSheetsCalled /\ lastOp.i \in {NoSheetCb, NumSheets + 1}
        /\ lastOp.abortAt = NeverAbort) =>
        /\ LoadedSheets = Upto(1, NumSheets)
        /\ \A k \in 1..NumSheets :
            /\ \A r \in book[k].sr..book[k].er :
                   Cardinality({j \in 1..Len(SheetVisited(k)) :
                                    SheetVisited(k)[j] = r}) = 1
            /\ ~lastOp.back => SheetVisited(k) = Upto(book[k].sr, book[k].er)
            /\ "end" \in handlers =>
                   /\ Len(SelectSeq(Segment(k), IsEnd)) = 1
                   /\ Segment(k)[Len(Segment(k))] =
                          Ev("end", SheetCount(k, k), 0)
        /\ ret = NumVal(SumCounts(NumSheets))
        /\ sheet = NumSheets

\* a forward readAllSheets with an onsheet callback that read every sheet and
\* returned a total
C19_Witness ==
    /\ ReadAllSheetsCalled /\ lastOp.i = NumSheets + 1
    /\ lastOp.abortAt = NeverAbort /\ ~lastOp.back
    /\ LoadedSheets = Upto(1, NumSheets)
    /\ Len(Visited) > NumSheets
    /\ ret.kind = "number" /\ ret.num >= Len(Visited)

\* C20: in readAllSheets, once the onsheet callback has returned a truthy
\* value for a sheet, nothing else happens in the call: no row of that sheet
\* is read and no cell of it fetched, no later sheet is loaded or read, the
\* abort request is cleared, and (the earlier sheets having been read with a
\* usable record callback) the total returned is the sum of the readAll
\* counts of the sheets before it.
C20_OnSheetAborts ==
    (lastOp.op = "readAllSheets" /\ ~destroyed /\ lastOp.i \in 1..NumSheets
        /\ \E p \in 1..Len(log) : log[p] = Ev("sheet", lastOp.i, 0)) =>
        /\ log[Len(log)] = Ev("sheet", lastOp.i, 0)
        /\ log[Len(log) - 1] = Ev("load", lastOp.i, 0)
        /\ LoadedSheets = Upto(1, lastOp.i)
        /\ SheetVisited(lastOp.i) = <<>>
        /\ sheet = lastOp.i
        /\ ~abortRequested
        /\ ret.kind = "number"
        /\ (lastOp.fn \/ "record" \in handlers) =>
               ret.num = SumCounts(lastOp.i - 1)

\* onsheet returned a truthy value for a sheet that is not the first, after
\* the rows of the sheets before it had been read
C20_Witness ==
    /\ ReadAllSheetsCalled /\ lastOp.i \in 2..NumSheets
    /\ log[Len(log)] = Ev("sheet", lastOp.i, 0)
    /\ Len(Visited) >= 1
    /\ ret.kind = "number" /\ ret.num >= 1

\* the error a call is bound to report on a live cursor, "" when it is none
\* of the three: read() of a row index that resolves outside [0, endRow],
\* readMany() with a negative count, readAll() without a usable callback
ArgumentError(op) ==
    IF op.op = "read"
          /\ (Effective(op.i) < 0 \/ Effective(op.i) > endRow)
    THEN "BoundsError"
    ELSE IF op.op = "readMany" /\ op.n < 0 THEN "CountError"
    ELSE IF op.op = "readAll" /\ ~op.fn /\ "record" \notin handlers
    THEN "MissingHandlerError"
    ELSE ""

\* C21: on a cursor that is not destroyed, a BoundsError, a negative-count
\* error or a MissingHandlerError goes to the registered error handler
\* exactly once and nothing is thrown, and the sheet, the range, rowIndex and
\* started are as before the call; without an error handler the same error is
\* thrown to the caller. A read of a row of the range on a loaded sheet
\* succeeds in whatever state the cursor is, so also right after such an
\* error.
C21_ErrorsGoToHandler ==
    [][ /\ (~destroyed /\ ArgumentError(lastOp') # "") =>
            IF "error" \in handlers
            THEN /\ log' = <<ErrEv(ArgumentError(lastOp'))>>
                 /\ ret' \in {NullVal, NumVal(0)}
                 /\ sheet' = sheet
                 /\ <<startRow', endRow', startCol', endCol'>> =
                        <<startRow, endRow, startCol, endCol>>
                 /\ rowIndex' = rowIndex
                 /\ started' = started
            ELSE /\ ret' = ThrowVal(ArgumentError(lastOp'))
                 /\ log' = <<>>
        /\ (lastOp'.op = "read" /\ Loaded
                /\ lastOp'.i >= startRow /\ lastOp'.i <= endRow) =>
            ret' = RowVal(RowCells(sheet, lastOp'.i))
      ]_vars

\* a negative count handed to readMany on a cursor that had read rows: the
\* handler was told once, null came back and the cursor is where it was
C21_Witness ==
    /\ lastOp.op = "readMany" /\ lastOp.n < 0 /\ Loaded
    /\ "error" \in handlers
    /\ log = <<ErrEv("CountError")>>
    /\ ret = NullVal
    /\ started /\ rowIndex >= startRow /\ rowIndex <= endRow

\* C22 (as claimed): on a loaded sheet, any read whose row index (resolved
\* from the end when negative) lies outside [startRow, endRow], rows in
\* [0, startRow - 1] included, reports a BoundsError and returns null.
C22_ReadOutsideRange ==
    (lastOp.op = "read" /\ Loaded
        /\ (Effective(lastOp.i) < startRow \/ Effective(lastOp.i) > endRow)) =>
        IF "error" \in handlers
        THEN ret = NullVal /\ log = <<ErrEv("BoundsError")>>
        ELSE ret = ThrowVal("BoundsError")

\* C23 (as claimed): on a loaded sheet, readCell(col, row) with both
\* coordinates supplied and inside the range, row 0 and column 0 included,
\* returns the cell stored at exactly (row, col), or undefined when none is
\* stored there, wherever the cursor stands.
C23_ReadCellExact ==
    (lastOp.op = "readCell" /\ Loaded
        /\ lastOp.i >= startCol /\ lastOp.i <= endCol
        /\ lastOp.n >= startRow /\ lastOp.n <= endRow) =>
        ret = IF Stored(sheet, lastOp.n, lastOp.i)
              THEN CellVal(CellV(sheet, lastOp.n, lastOp.i))
              ELSE UndefVal

\* ============================================================== FastXlsxReader
\* -------------------------------------------------------------- JS values
\* A JavaScript value: undefined, a number (n), NaN, a string (s, one entry
\* per character), a Date whose time value is n hours after
\* 1970-01-01T00:00:00Z, an Invalid Date, or what a caller's cast function
\* made of a value (t is then "fn(...)" around the argument's t). The
\* serial dates converted are whole numbers of days, so every Date made is a
\* whole number of hours from the epoch; in milliseconds it would not fit
\* the model checker's integers.
JsVal(t, n, s) == [t |-> t, n |-> n, s |-> s]
JsUndefined == JsVal("undefined", 0, <<>>)
JsNumber(n) == JsVal("number", n, <<>>)
JsNaN == JsVal("NaN", 0, <<>>)
JsString(s) == JsVal("string", 0, s)
JsDate(hours) == JsVal("date", hours, <<>>)
JsInvalidDate == JsVal("InvalidDate", 0, <<>>)

Digits == <<"0", "1", "2", "3", "4", "5", "6", "7", "8", "9">>
UpperCase == <<"A", "B", "C", "D", "H">>
LowerCase == <<"a", "b", "c", "d", "h">>

IsDigit(ch) == \E d \in 1..10 : Digits[d] = ch
DigitOf(ch) == (CHOOSE d \in 1..10 : Digits[d] = ch) - 1

\* String.prototype.toLowerCase
ToLowerCase(s) ==
    [k \in 1..Len(s) |->
        IF \E u \in 1..Len(UpperCase) : UpperCase[u] = s[k]
        THEN LowerCase[CHOOSE u \in 1..Len(UpperCase) : UpperCase[u] = s[k]]
        ELSE s[k]]

RECURSIVE TrimStart(_)
TrimStart(s) ==
    IF s # <<>> /\ Head(s) = " " THEN TrimStart(Tail(s)) ELSE s

RECURSIVE TrimEnd(_)
TrimEnd(s) ==
    IF s # <<>> /\ s[Len(s)] = " "
    THEN TrimEnd(SubSeq(s, 1, Len(s) - 1))
    ELSE s

\* String.prototype.trim
Trim(s) == TrimEnd(TrimStart(s))

\* Number.prototype.toString of a non-negative integer
RECURSIVE NumberToString(_)
NumberToString(n) ==
    IF n < 10 THEN <<Digits[n + 1]>>
    ELSE Append(NumberToString(n \div 10), Digits[(n % 10) + 1])

\* value.toString() of a number or a string
JsToString(v) == IF v.t = "number" THEN NumberToString(v.n) ELSE v.s

\* the integer written by a string of digits
RECURSIVE DigitsToNumber(_)
DigitsToNumber(s) ==
    IF s = <<>> THEN 0
    ELSE 10 * DigitsToNumber(SubSeq(s, 1, Len(s) - 1)) + DigitOf(s[Len(s)])

\* the longest prefix of s made of digits
RECURSIVE DigitPrefix(_)
DigitPrefix(s) ==
    IF s # <<>> /\ IsDigit(Head(s))
    THEN <<Head(s)>> \o DigitPrefix(Tail(s))
    ELSE <<>>

\* Number(value) of a number or a string
ToNumber(v) ==
    IF v.t = "number" THEN v
    ELSE LET s == Trim(v.s)
         IN  IF s = <<>> THEN JsNumber(0)
             ELSE IF DigitPrefix(s) = s THEN JsNumber(DigitsToNumber(s))
             ELSE JsNaN

\* String(value) of a number or a string
ToStringCast(v) == JsString(JsToString(v))

\* parseInt(string)
ParseInt(s) ==
    LET p == DigitPrefix(TrimStart(s))
    IN  IF p = <<>> THEN JsNaN ELSE JsNumber(DigitsToNumber(p))

\* !value of a number or a string or undefined
JsFalsy(v) ==
    \/ v.t \in {"undefined", "NaN"}
    \/ v.t = "number" /\ v.n = 0
    \/ v.t = "string" /\ v.s = <<>>

\* ----------------------------------------------------------------- xldates
daysBeforeUnixEpoch == 70 * 365 + 19

\* const hour, in milliseconds
hour == 60 * 60 * 1000

\* parseDate that leaves out the half day
ParseDate_NoHalfDay(serialDate, epoch1904) ==
    LET serial == IF epoch1904 THEN serialDate + 1462 ELSE serialDate
    IN  JsDate((serial - daysBeforeUnixEpoch) * 24)

\* parseDate(serialDate, epoch1904) of a whole number of days: the time
\* value Math.round((serialDate - daysBeforeUnixEpoch) * 24 * hour)
\* + 12 * hour, counted in hours
ParseDate(serialDate, epoch1904) ==
    LET serial == IF epoch1904 THEN serialDate + 1462 ELSE serialDate
    IN  JsDate((serial - daysBeforeUnixEpoch) * 24 + 12)

\* Date.parse(string) of a string that parseInt rejects: the strings read
\* here are no calendar dates (none has a number that stands apart from
\* its letters), so the result is NaN
DateParse(s) == JsNaN

\* new Date(number)
NewDate(v) == IF v.t = "NaN" THEN JsInvalidDate ELSE JsDate(v.n \div hour)

\* tryConvertDate(value, epoch1904); undefined has no toString method, and
\* the TypeError is caught; the string form of any other value begins with
\* a letter, so that parseInt gives NaN and parseDate an Invalid Date
TryConvertDate(value, epoch1904) ==
    IF value.t = "number" THEN ParseDate(value.n, epoch1904)
    ELSE IF value.t = "NaN" THEN NewDate(JsNaN)
    ELSE IF value.t = "string"
    THEN LET converted == ParseInt(value.s)
         IN  IF converted.t = "NaN" THEN NewDate(DateParse(value.s))
             ELSE ParseDate(converted.n, epoch1904)
    ELSE IF value.t = "undefined" THEN value
    ELSE NewDate(JsNaN)

\* ------------------------------------------------------------- JS objects
\* An object is the sequence of its own properties in enumeration order:
\* the keys that are array indices first, in ascending order, then the
\* other keys in the order they were added.
IsIndexKey(key) ==
    /\ key # <<>>
    /\ DigitPrefix(key) = key
    /\ (Head(key) = "0" => Len(key) = 1)

HasKey(obj, key) == \E k \in 1..Len(obj) : obj[k].key = key

Get(obj, key) == obj[CHOOSE k \in 1..Len(obj) : obj[k].key = key].v

\* the position at which a new property named key is enumerated
PutAt(obj, key) ==
    IF IsIndexKey(key)
    THEN 1 + Cardinality({ k \in 1..Len(obj) :
                              /\ IsIndexKey(obj[k].key)
                              /\ DigitsToNumber(obj[k].key)
                                    < DigitsToNumber(key) })
    ELSE Len(obj) + 1

\* obj[key] = v
Put(obj, key, v) ==
    IF HasKey(obj, key)
    THEN [k \in 1..Len(obj) |->
            IF obj[k].key = key THEN [key |-> key, v |-> v] ELSE obj[k]]
    ELSE LET p == PutAt(obj, key)
         IN  SubSeq(obj, 1, p - 1) \o <<[key |-> key, v |-> v]>>
                \o SubSeq(obj, p, Len(obj))

\* the name of the property that obj[column] reads or writes
PropertyKey(column) ==
    IF column.t = "undefined"
    THEN <<"u", "n", "d", "e", "f", "i", "n", "e", "d">>
    ELSE JsToString(column)

\* ------------------------------------------------------ workbook contents
\* What the cells of the workbook hold: "number" makes every cell.v the
\* number that encodes its address; "text" makes it a string with an upper
\* case letter and a blank at one end; "mixed" makes it the number 0 where
\* row + column is even and a string of digits elsewhere.
Values == {"number", "text", "mixed"}

CellValue(values, v) ==
    LET r == (v \div 10) % 10
        c == v % 10
    IN  IF values = "number" THEN JsNumber(v)
        ELSE IF values = "text"
        THEN JsString(IF c % 2 = 0
                      THEN <<" ", UpperCase[c + 1]>> \o NumberToString(r)
                      ELSE <<UpperCase[c + 1]>> \o NumberToString(r)
                              \o <<" ">>)
        ELSE IF (r + c) % 2 = 0 THEN JsNumber(0)
        ELSE JsString(NumberToString(v))

\* the row array that read(index) hands to the record callback
RowArray(values, s, index) ==
    [k \in 1..(book[s].ec - book[s].sc + 1) |->
        IF Stored(s, index, book[s].sc + k - 1)
        THEN CellValue(values, CellV(s, index, book[s].sc + k - 1))
        ELSE JsUndefined]

\* ------------------------------------------------------- facade: the state
\* One call the facade made on the sink (write, end, close), on a callback
\* of the options (onHeader, onRecord, onError, onFinish) or on the
\* process (exit): n and m are its numbers, txt its text, cols a header,
\* obj a record, items a list of records.
FCall(c, n, m, txt, cols, obj, items) ==
    [c |-> c, n |-> n, m |-> m, txt |-> txt, cols |-> cols, obj |-> obj,
     items |-> items]

Called(fc, call) == [fc EXCEPT !.calls = Append(@, call)]

\* this._header: null, or an array of column names
NullHeader == [isNull |-> TRUE, cols |-> <<>>]
ArrayHeader(cols) == [isNull |-> FALSE, cols |-> cols]

\* options.schema: absent, or an object of { prop, type } entries
NoSchema == [given |-> FALSE, map |-> <<>>]
SchemaOf(map) == [given |-> TRUE, map |-> map]

\* the process has ended, or an exception is on its way to the caller
Stopped(fc) == fc.exited \/ fc.thrown # ""

\* row[index], with index counted from 1
RowAt(row, k) == IF k <= Len(row) THEN row[k] ELSE JsUndefined

\* the row array of the last 'record' event, as the callback left it: the
\* reader goes on with the same array once the callback has returned
NoData == [seen |-> FALSE, row |-> <<>>]
DataSeen(row) == [seen |-> TRUE, row |-> row]

\* new FastXlsxReader(options) on a workbook whose cells hold values
NewFacade(values, options) ==
    [made |-> TRUE, values |-> values, options |-> options,
     header |-> NullHeader, hasSchemaErr |-> FALSE, hasStream |-> FALSE,
     hasRecord |-> FALSE, items |-> <<>>, rowsProcessed |-> 0,
     currentRow |-> <<>>, sheetReaderInstance |-> "none", calls |-> <<>>,
     exited |-> FALSE, thrown |-> "", mode |-> "new", readerCalls |-> 0,
     data |-> NoData]

\* ----------------------------------------------------- facade: the sink
\* _createOutStream
CreateOutStream(fc) ==
    IF ~fc.hasStream /\ fc.options.output
    THEN [fc EXCEPT !.hasStream = TRUE]
    ELSE fc

IsJson(fc) == fc.options.format = "json"

\* _writeHeader
WriteHeader(fc) ==
    IF fc.hasStream /\ IsJson(fc)
    THEN Called(fc, FCall("write", 0, 0, "[", <<>>, <<>>, <<>>))
    ELSE fc

\* JSON.stringify(value) of a property's value: NaN and an Invalid Date
\* are written as null, the others as themselves
JsonValue(v) ==
    IF v.t \in {"NaN", "InvalidDate"} THEN JsVal("null", 0, <<>>) ELSE v

\* JSON.stringify(record): the properties whose value is undefined are left
\* out
JsonStringify(record) ==
    LET kept == SelectSeq(record, LAMBDA p : p.v.t # "undefined")
    IN  [k \in 1..Len(kept) |->
            [key |-> kept[k].key, v |-> JsonValue(kept[k].v)]]

\* _writeRecord
WriteRecord(fc, record) ==
    IF fc.hasStream /\ IsJson(fc)
    THEN LET f1 == IF fc.hasRecord
                   THEN Called(fc, FCall("write", 0, 0, ",", <<>>, <<>>,
                                         <<>>))
                   ELSE [fc EXCEPT !.hasRecord = TRUE]
         IN  Called(f1, FCall("write", 0, 0, "record", <<>>,
                              JsonStringify(record), <<>>))
    ELSE fc

\* _writeFooter
WriteFooter(fc) ==
    IF fc.hasStream
    THEN LET f1 == IF IsJson(fc)
                   THEN Called(fc, FCall("end", 0, 0, "]", <<>>, <<>>, <<>>))
                   ELSE fc
             f2 == Called(f1, FCall("close", 0, 0, "", <<>>, <<>>, <<>>))
         IN  [f2 EXCEPT !.hasStream = FALSE]
    ELSE fc

\* _finalize: m is 1 when onFinish gets null in place of the items
Finalize(fc) ==
    LET f1 == WriteFooter(fc)
    IN  IF ~fc.options.onRecord /\ ~f1.hasStream
        THEN Called(f1, FCall("onFinish", f1.rowsProcessed, 0, "", <<>>,
                              <<>>, f1.items))
        ELSE Called(f1, FCall("onFinish", f1.rowsProcessed, 1, "", <<>>,
                              <<>>, <<>>))

\* _quit(code, error): code 0 stands for no code
Quit(fc, code, error) ==
    LET f1 == WriteFooter(fc)
        f2 == IF fc.options.onError
              THEN Called(f1, FCall("onError", 0, 0, error, <<>>, <<>>,
                                    <<>>))
              ELSE f1
        f3 == Called(f2, FCall("exit", IF code = 0 THEN 1 ELSE code, 0, "",
                               <<>>, <<>>, <<>>))
    IN  [f3 EXCEPT !.exited = TRUE]

\* ---------------------------------------------------- facade: the header
\* _normalizeHeader(row, lowerCase): every element of row is assigned its
\* new value, and row itself is returned
NormalizeHeader(row, lowerCase) ==
    [k \in 1..Len(row) |->
        IF ~JsFalsy(row[k])
        THEN LET col == Trim(JsToString(row[k]))
             IN  JsString(IF lowerCase THEN ToLowerCase(col) ELSE col)
        ELSE JsUndefined]

\* the keys of the schema, as for (const key in schema) visits them
SchemaKeys(schema) == [k \in 1..Len(schema.map) |-> JsString(schema.map[k].key)]

\* header names numbered from 0
ArbitraryHeader_ZeroBased(row, headerPrefix, lowerCase) ==
    [i \in 1..Len(row) |->
        LET name == headerPrefix \o NumberToString(i - 1)
        IN  JsString(IF lowerCase THEN ToLowerCase(name) ELSE name)]

\* headerPrefix + i for i from 1 to row.length
ArbitraryHeader(row, headerPrefix, lowerCase) ==
    [i \in 1..Len(row) |->
        LET name == headerPrefix \o NumberToString(i)
        IN  JsString(IF lowerCase THEN ToLowerCase(name) ELSE name)]

\* _readHeader that counts the row whether or not it is a header row
ReadHeader_AlwaysCounts(fc, row) ==
    LET o == fc.options
        cols == IF ~o.hasHeader
                THEN IF o.schema.given
                     THEN SchemaKeys(o.schema)
                     ELSE ArbitraryHeader(row, o.headerPrefix,
                                          o.lowerCaseHeaders)
                ELSE NormalizeHeader(row, ~o.schema.given
                                            /\ o.lowerCaseHeaders)
        f1 == [fc EXCEPT !.header = ArrayHeader(cols),
                         !.rowsProcessed = @ + 1]
    IN  Called(f1, FCall("onHeader", 0, 0, "", cols, <<>>, <<>>))

\* _readHeader(row); the options always carry an onHeader function
ReadHeader(fc, row) ==
    LET o == fc.options
        cols == IF ~o.hasHeader
                THEN IF o.schema.given
                     THEN SchemaKeys(o.schema)
                     ELSE ArbitraryHeader(row, o.headerPrefix,
                                          o.lowerCaseHeaders)
                ELSE NormalizeHeader(row, ~o.schema.given
                                            /\ o.lowerCaseHeaders)
        f1 == [fc EXCEPT !.header = ArrayHeader(cols),
                         !.rowsProcessed = IF o.hasHeader THEN @ + 1 ELSE @]
    IN  Called(f1, FCall("onHeader", 0, 0, "", cols, <<>>, <<>>))

\* ---------------------------------------------------- facade: the records
\* a caller's cast function applied to a value
CustomCast(value) == [value EXCEPT !.t = "fn(" \o @ \o ")"]

\* the value of one schema column: value is row[index] after the coercion of
\* undefined to ""; an arrow function has no prototype, so reading
\* cast.prototype.constructor of one throws
CastThrows(cast) == cast = "arrow"

Cast(cast, value) ==
    IF cast = "Date" THEN TryConvertDate(value, FALSE)
    ELSE IF cast = "Number" THEN ToNumber(value)
    ELSE IF cast = "String" THEN ToStringCast(value)
    ELSE IF cast = "function" THEN CustomCast(value)
    ELSE value

\* one turn of the forEach of _rowFromSchema, for column k; r holds the
\* facade and the object built so far
RowFromSchemaStep(r, row, k) ==
    LET fc == r.fc
        column == fc.header.cols[k]
        key == PropertyKey(column)
        schema == fc.options.schema.map
    IN  IF HasKey(schema, key)
        THEN LET meta == Get(schema, key)
                 value == IF RowAt(row, k).t = "undefined"
                          THEN JsString(<<>>)
                          ELSE RowAt(row, k)
             IN  IF CastThrows(meta.cast)
                 THEN [r EXCEPT !.fc.thrown = "TypeError"]
                 ELSE [r EXCEPT !.obj = Put(@, meta.prop,
                                            Cast(meta.cast, value))]
        ELSE IF ~fc.hasSchemaErr
        THEN LET f1 == [fc EXCEPT !.hasSchemaErr = TRUE]
                 f2 == IF fc.options.onError
                       THEN Called(f1, FCall("onError", 0, 0,
                                             "#ERR_SCHEMA", <<column>>,
                                             <<>>, <<>>))
                       ELSE f1
             IN  [r EXCEPT !.fc = Quit(f2, 0, "undefined")]
        ELSE r

\* the forEach of _rowFromSchema from column k on
RECURSIVE RowFromSchemaLoop(_, _, _)
RowFromSchemaLoop(r, row, k) ==
    IF k > Len(r.fc.header.cols) \/ Stopped(r.fc)
    THEN r
    ELSE RowFromSchemaLoop(RowFromSchemaStep(r, row, k), row, k + 1)

\* _rowFromSchema(row, schema, onError)
RowFromSchema(fc, row) ==
    IF fc.header.isNull
    THEN [fc |-> [fc EXCEPT !.thrown = "TypeError"], obj |-> <<>>]
    ELSE RowFromSchemaLoop([fc |-> fc, obj |-> <<>>], row, 1)

\* the forEach of _rowFromHeader from column k on
RECURSIVE RowFromHeaderLoop(_, _, _, _)
RowFromHeaderLoop(r, row, lowerCase, k) ==
    IF k > Len(r.fc.header.cols) \/ Stopped(r.fc)
    THEN r
    ELSE
    LET column == r.fc.header.cols[k]
    IN  IF lowerCase /\ column.t = "undefined"
        THEN [r EXCEPT !.fc.thrown = "TypeError"]
        ELSE LET key == IF lowerCase
                        THEN ToLowerCase(PropertyKey(column))
                        ELSE PropertyKey(column)
             IN  RowFromHeaderLoop([r EXCEPT !.obj = Put(@, key, RowAt(row, k))],
                                   row, lowerCase, k + 1)

\* _rowFromHeader(row, lowerCase)
RowFromHeader(fc, row, lowerCase) ==
    IF ~fc.header.isNull
    THEN RowFromHeaderLoop([fc |-> fc, obj |-> <<>>], row, lowerCase, 1)
    ELSE [fc |-> fc, obj |-> <<>>]

\* _readRow(row, index, ...)
ReadRow(fc, row, index) ==
    LET o == fc.options
        r == IF o.schema.given
             THEN RowFromSchema(fc, row)
             ELSE RowFromHeader(fc, row, o.lowerCaseHeaders)
    IN  IF Stopped(r.fc) THEN r.fc
        ELSE
        LET f1 == [r.fc EXCEPT !.rowsProcessed = @ + 1,
                               !.currentRow = r.obj]
            f2 == IF o.onRecord
                  THEN Called(f1, FCall("onRecord", index, 0, "", <<>>,
                                        r.obj, <<>>))
                  ELSE IF o.useMemoryForItems /\ ~f1.hasStream
                  THEN [f1 EXCEPT !.items = Append(@, r.obj)]
                  ELSE f1
        IN  WriteRecord(f2, r.obj)

\* ----------------------------------------------------- facade: the events
\* this._sheetReaderInstance._startRow
InstanceStartRow(fc, st) ==
    IF fc.sheetReaderInstance = "reader" THEN st.startRow ELSE 0

\* _handleCallbackEvent(eventName, data, rowIndex, colIndex, ...) for the
\* event e of the cursor st; no handler was added with on(), so _fireEvent
\* is not called. The method has no binding for the name onCell that its
\* "cell" case calls (it is a local of read() and of createReader()), so
\* that case ends in a ReferenceError. With a header row, _readHeader hands
\* the row array of the 'record' event to _normalizeHeader, which rewrites
\* it and returns it as the header; no other row array is assigned to.
HandleCallbackEvent(fc, e, st) ==
    IF e.ev = "start"
    THEN [fc EXCEPT !.sheetReaderInstance = "reader"]
    ELSE IF e.ev = "cell"
    THEN [fc EXCEPT !.thrown = "ReferenceError"]
    ELSE IF e.ev = "record"
    THEN IF fc.sheetReaderInstance = "none"
         THEN [fc EXCEPT !.thrown = "TypeError"]
         ELSE
         LET isStart == e.a = InstanceStartRow(fc, st)
             data == RowArray(fc.values, st.sheet, e.a)
             f1 == IF isStart THEN ReadHeader(fc, data) ELSE fc
         IN  IF fc.options.hasHeader /\ isStart
             THEN [f1 EXCEPT !.data = DataSeen(f1.header.cols)]
             ELSE [ReadRow(f1, data, e.a) EXCEPT !.data = DataSeen(data)]
    ELSE IF e.ev = "end"
    THEN Finalize(fc)
    ELSE IF e.ev = "error"
    THEN Quit(fc, 1, e.err)
    ELSE fc

\* the callback that read() gives to iterate, on a 'start' event; Deliver
\* passes the other events to _handleCallbackEvent as the callback does
ReadCallback(fc, e, st) ==
    IF e.ev = "start"
    THEN [WriteHeader(CreateOutStream(fc)) EXCEPT
            !.sheetReaderInstance = "reader"]
    ELSE fc

\* the events of one cursor call go to the facade's callback one after the
\* other, from event k on, until the callback throws or ends the process;
\* at is the number of the event at which that happened. viaRead tells the
\* callback of read() from the callback of createReader().
RECURSIVE Deliver(_, _, _, _, _)
Deliver(fc, st, events, k, viaRead) ==
    IF k > Len(events) THEN [fc |-> fc, at |-> k]
    ELSE LET e == events[k]
             f1 == IF e.ev \notin handlers THEN fc
                   ELSE IF viaRead /\ e.ev = "start"
                   THEN ReadCallback(fc, e, st)
                   ELSE HandleCallbackEvent(fc, e, st)
         IN  IF Stopped(f1) THEN [fc |-> f1, at |-> k]
             ELSE Deliver(f1, st, events, k + 1, viaRead)

\* ---------------------------------------------------- facade: the options
DEFAULT_EVENTS == {"start", "record", "end", "error"}

\* the type of a schema entry: none, Number, String, Date, a function of the
\* caller's, or an arrow function of the caller's
Casts == {"none", "Number", "String", "Date", "function", "arrow"}

\* a schema literal with one entry per column of cols from column k to
\* column n, written in that order: the entry of column i maps it to the
\* property "p<i>" with the given type
RECURSIVE SchemaFrom(_, _, _, _)
SchemaFrom(cols, k, n, cast) ==
    IF n < k THEN <<>>
    ELSE Put(SchemaFrom(cols, k, n - 1, cast), PropertyKey(cols[n]),
             [prop |-> <<"p">> \o NumberToString(n), cast |-> cast])

\* the schemas tried on sheet s: none, one with an entry for every column
\* named by the row at startRow, and one that lacks the first column's
Schemas(values, s) ==
    LET cols == NormalizeHeader(RowArray(values, s, book[s].sr), FALSE)
    IN  {NoSchema}
            \cup { SchemaOf(SchemaFrom(cols, 1, Len(cols), c)) : c \in Casts }
            \cup {SchemaOf(SchemaFrom(cols, 2, Len(cols), "none"))}

\* options.output and options.format: no output, a JSON stream, or a stream
\* of another format
Outputs ==
    { [output |-> FALSE, format |-> ""], [output |-> TRUE, format |-> "json"],
      [output |-> TRUE, format |-> "csv"] }

DefaultHeaderPrefix == <<"h", "e", "a", "d", "e", "r", "_">>

HeaderPrefixes == { DefaultHeaderPrefix, <<"H", "_">> }

\* the options of one reader; onHeader and onFinish are always functions,
\* and onRecordReturns tells whether the onRecord function returns a truthy
\* value
Options(s, hh, lc, hp, sc, onr, ort, onc, one, mem, bw, out) ==
    [sheetname |-> s, hasHeader |-> hh, lowerCaseHeaders |-> lc,
     headerPrefix |-> hp, schema |-> sc, onRecord |-> onr,
     onRecordReturns |-> ort, onCell |-> onc, onError |-> one,
     useMemoryForItems |-> mem, backwards |-> bw, output |-> out.output,
     format |-> out.format]

\* An option is varied only where read() looks at it: headerPrefix when the
\* header is made of ordinal names, useMemoryForItems when there is no
\* onRecord function, and what onRecord returns when there is one.
Varied(o) ==
    /\ (o.hasHeader \/ o.schema.given) =>
            o.headerPrefix = DefaultHeaderPrefix
    /\ o.onRecord => ~o.useMemoryForItems
    /\ ~o.onRecord => ~o.onRecordReturns

\* ---------------------------------------------------- facade: the actions
MaxReaderCalls == 2

\* the sheet reader that createSheetReader makes for sheet s
NewSheetReader(s) ==
    LoadSheet([sheet |-> NoSheet, startRow |-> 0, endRow |-> 0,
               startCol |-> 0, endCol |-> 0, rowIndex |-> Undefined,
               colIndex |-> Undefined, started |-> FALSE,
               destroyed |-> FALSE, abortRequested |-> FALSE,
               currentRow |-> NoRow, log |-> <<>>, thrown |-> "",
               val |-> UndefVal],
              [kind |-> "name", i |-> s])

\* the cursor at the moment its event e made the facade's callback throw or
\* end the process, st0 being the cursor before the call
AtStop(st0, op, e) ==
    IF e.ev = "record"
    THEN [st0 EXCEPT !.started = TRUE, !.colIndex = st0.endCol + 1,
                     !.abortRequested = FALSE,
                     !.rowIndex = IF op = "read" THEN @ ELSE e.a]
    ELSE IF e.ev = "cell"
    THEN [st0 EXCEPT !.started = TRUE, !.colIndex = e.b,
                     !.abortRequested = FALSE,
                     !.rowIndex = IF op = "read" THEN @ ELSE e.a]
    ELSE st0

\* a process that has not started a reader yet
InitFacade ==
    /\ book \in Books
    /\ \E s \in 1..NumSheets, values \in Values :
        \E sc \in Schemas(values, s), hh \in BOOLEAN, lc \in BOOLEAN,
           hp \in HeaderPrefixes, onr \in BOOLEAN, ort \in BOOLEAN,
           onc \in BOOLEAN, one \in BOOLEAN, mem \in BOOLEAN,
           bw \in BOOLEAN, out \in Outputs :
            \E options \in {Options(s, hh, lc, hp, sc, onr, ort, onc, one,
                                     mem, bw, out)} :
                /\ Varied(options)
                /\ facade = NewFacade(values, options)
                /\ handlers = DEFAULT_EVENTS
                                \cup (IF options.onCell THEN {"cell"}
                                      ELSE {})
    /\ sheet = NoSheet
    /\ startRow = 0
    /\ endRow = 0
    /\ startCol = 0
    /\ endCol = 0
    /\ rowIndex = Undefined
    /\ colIndex = Undefined
    /\ started = FALSE
    /\ destroyed = FALSE
    /\ abortRequested = FALSE
    /\ currentRow = NoRow
    /\ lastOp = Op("new", 0, 0, FALSE, NoCb)
    /\ log = <<>>
    /\ ret = UndefVal
    /\ registrations = 0
    /\ date = NoDate

\* iterate that destroys the reader only when readAll returned
Iterate_LeaksOnThrow(st, fc) ==
    IF fc.exited \/ fc.thrown # "" THEN st ELSE Destroy(st)

\* iterate, once readAll(backwards) has returned or thrown, leaving the
\* reader as st and the facade as fc: reader.destroy(), unless the process
\* has ended inside readAll; the exception caught is thrown again after it
Iterate(st, fc) ==
    IF fc.exited THEN st ELSE Destroy(st)

\* read(index) returns, and moveNext() keeps as the current row, the array
\* that the 'record' callback received
RowReturned(op, st, fc) ==
    IF ~fc.data.seen THEN st
    ELSE IF op = "read" /\ st.val.kind = "row"
    THEN [st EXCEPT !.val.js = fc.data.row]
    ELSE IF op = "moveNext" /\ st.val = BoolVal(TRUE)
    THEN [st EXCEPT !.currentRow.v.js = fc.data.row]
    ELSE st

\* the state after a call on the facade or on its reader: the cursor call
\* took the cursor from st0 to st1, and d is what the delivery of its events
\* made of the facade
FacadeDone(op, st0, st1, d, destroys, calls) ==
    LET stopped == Stopped(d.fc)
        st2 == IF stopped THEN AtStop(st0, op.op, st1.log[d.at])
               ELSE RowReturned(op.op, st1, d.fc)
        st == IF destroys THEN Iterate(st2, d.fc) ELSE st2
    IN  /\ sheet' = st.sheet
        /\ startRow' = st.startRow
        /\ endRow' = st.endRow
        /\ startCol' = st.startCol
        /\ endCol' = st.endCol
        /\ rowIndex' = st.rowIndex
        /\ colIndex' = st.colIndex
        /\ started' = st.started
        /\ destroyed' = st.destroyed
        /\ abortRequested' = st.abortRequested
        /\ currentRow' = st.currentRow
        /\ lastOp' = op
        /\ log' = IF stopped THEN SubSeq(st1.log, 1, d.at) ELSE st1.log
        /\ ret' = IF d.fc.thrown # "" THEN ThrowVal(d.fc.thrown)
                  ELSE IF Thrown(st1) THEN ThrowVal(st1.thrown)
                  ELSE IF destroys THEN UndefVal
                  ELSE IF stopped THEN st1.val
                  ELSE st.val
        /\ facade' = [d.fc EXCEPT
                        !.thrown = "",
                        !.data = NoData,
                        !.mode = IF d.fc.exited THEN "exited"
                                 ELSE IF destroys THEN "read"
                                 ELSE "reader",
                        !.readerCalls = calls]
        /\ UNCHANGED <<book, handlers, registrations, date>>

\* a callback that returns to the reader what onRecord returned
CallbackReturn_OnRecordValue(o) ==
    IF o.onRecord /\ o.onRecordReturns THEN AlwaysAbort ELSE NeverAbort

\* what the callback that read() gives to iterate returns to the reader for
\* a 'record' event: _readRow drops what onRecord returned, and neither
\* _handleCallbackEvent nor the callback has a return statement, so the
\* onrecord function of createSheetReader returns undefined for every row
CallbackReturn(o) == NeverAbort

\* read()
FacadeRead ==
    /\ facade.mode = "new"
    /\ \E f0 \in {[WriteHeader(CreateOutStream(
                        [facade EXCEPT !.rowsProcessed = 0,
                                       !.hasRecord = FALSE]))
                   EXCEPT !.sheetReaderInstance = "stub"]},
          st0 \in {NewSheetReader(facade.options.sheetname)} :
        \E st1 \in {ReadAll(st0, facade.options.backwards,
                             Cb(FALSE, CallbackReturn(facade.options)))} :
            \E d \in {Deliver(f0, st0, st1.log, 1, TRUE)} :
                FacadeDone(Op("facade.read", 0, 0, facade.options.backwards,
                              NoCb),
                           st0, st1, d, TRUE, 0)

\* createReader(), called by those that take the rows without a sink, an
\* onCell function or a direction, with an onError function, and with no
\* onRecord function that returns a truthy value
FacadeCreateReader ==
    /\ facade.mode = "new"
    /\ ~facade.options.output
    /\ ~facade.options.onCell
    /\ ~facade.options.onRecordReturns
    /\ ~facade.options.backwards
    /\ facade.options.onError
    /\ \E st0 \in {NewSheetReader(facade.options.sheetname)} :
        FacadeDone(Op("facade.createReader", 0, 0, FALSE, NoCb), st0,
                   st0,
                   [fc |-> [facade EXCEPT !.rowsProcessed = 0,
                                          !.hasRecord = FALSE],
                    at |-> 1],
                   FALSE, 0)

\* a call on the reader that createReader() returned
ReaderCall(op, st1) ==
    /\ facade.mode = "reader"
    /\ facade.readerCalls < MaxReaderCalls
    /\ \E st \in {st1} :
        \E d \in {Deliver(facade, Cur, st.log, 1, FALSE)} :
            FacadeDone(op, Cur, st, d, FALSE, facade.readerCalls + 1)

\* reader.read(index)
ReaderRead ==
    \E i \in 0..(MaxRow + 1) :
        ReaderCall(Op("read", i, 0, FALSE, NoCb), Read(Cur, i, NoCb))

\* reader.moveNext()
ReaderMoveNext ==
    ReaderCall(Op("moveNext", 0, 0, FALSE, NoCb), MoveNext(Cur, NoCb))

\* reader.reset()
ReaderReset ==
    ReaderCall(Op("reset", 0, 0, FALSE, NoCb), Reset(Cur))

\* reader.readAll(backwards)
ReaderReadAll ==
    \E b \in BOOLEAN :
        ReaderCall(Op("readAll", 0, 0, b, NoCb), ReadAll(Cur, b, NoCb))

NextFacade ==
    \/ FacadeRead
    \/ FacadeCreateReader
    \/ ReaderRead
    \/ ReaderMoveNext
    \/ ReaderReset
    \/ ReaderReadAll

SpecFacade == InitFacade /\ [][NextFacade]_vars

\* ------------------------------------------------- xldates: the functions
MaxSerial == 60

\* the serial dates converted: the days around the spreadsheet's day 0,
\* around the 1904 offset and around the Unix epoch
Serials ==
    { base + k : base \in {0, 1462, daysBeforeUnixEpoch},
                 k \in (0 - MaxSerial)..MaxSerial }

\* the strings converted: the empty string, "not-a-date", and strings with
\* and without a number at their head
DateStrings ==
    { <<>>, <<"n", "o", "t", "-", "a", "-", "d", "a", "t", "e">>,
      <<"1", "2">>, <<" ", "7">>, <<"3", "x">>, <<"x", "3">> }

DateInputs ==
    { JsNumber(n) : n \in Serials } \cup { JsString(str) : str \in DateStrings }
        \cup {JsUndefined, JsNaN}

\* a value and an epoch1904 flag, about to be converted; no cursor and no
\* facade were made
InitDates ==
    /\ date \in { [fn |-> "new", value |-> v, epoch1904 |-> e,
                   result |-> JsUndefined] :
                    v \in DateInputs, e \in BOOLEAN }
    /\ book = <<>>
    /\ handlers = {}
    /\ sheet = NoSheet
    /\ startRow = 0
    /\ endRow = 0
    /\ startCol = 0
    /\ endCol = 0
    /\ rowIndex = Undefined
    /\ colIndex = Undefined
    /\ started = FALSE
    /\ destroyed = FALSE
    /\ abortRequested = FALSE
    /\ currentRow = NoRow
    /\ lastOp = Op("new", 0, 0, FALSE, NoCb)
    /\ log = <<>>
    /\ ret = UndefVal
    /\ facade = NoFacade
    /\ registrations = 0

\* parseDate(value, epoch1904) of a serial date
DoParseDate ==
    /\ date.fn = "new"
    /\ date.value.t = "number"
    /\ date' = [date EXCEPT !.fn = "parseDate",
                            !.result = ParseDate(date.value.n,
                                                 date.epoch1904)]
    /\ UNCHANGED <<book, handlers, sheet, startRow, endRow, startCol, endCol,
                   rowIndex, colIndex, started, destroyed, abortRequested,
                   currentRow, lastOp, log, ret, facade, registrations>>

\* tryConvertDate(value, epoch1904)
DoTryConvertDate ==
    /\ date.fn = "new"
    /\ date' = [date EXCEPT !.fn = "tryConvertDate",
                            !.result = TryConvertDate(date.value,
                                                      date.epoch1904)]
    /\ UNCHANGED <<book, handlers, sheet, startRow, endRow, startCol, endCol,
                   rowIndex, colIndex, started, destroyed, abortRequested,
                   currentRow, lastOp, log, ret, facade, registrations>>

NextDates ==
    \/ DoParseDate
    \/ DoTryConvertDate

SpecDates == InitDates /\ [][NextDates]_vars

\* ------------------------------------------------------ claims on the facade
\* the last call was read() and it returned: no exception, no process.exit
FullReadReturned ==
    /\ facade.made
    /\ lastOp.op = "facade.read"
    /\ ret = UndefVal
    /\ ~facade.exited

\* the calls of one kind that the facade made, in order
CallsOf(c) == SelectSeq(facade.calls, LAMBDA x : x.c = c)

\* the row at startRow of the sheet that the options name
StartRowArray ==
    RowArray(facade.values, facade.options.sheetname,
             book[facade.options.sheetname].sr)

\* the header that the claim describes for a raw row
HeaderOfRow(row, lowerCase) ==
    [k \in 1..Len(row) |->
        IF row[k].t = "undefined" THEN JsUndefined
        ELSE JsString(IF lowerCase
                      THEN ToLowerCase(Trim(JsToString(row[k])))
                      ELSE Trim(JsToString(row[k])))]

\* C24: with hasHeader true, after a full read that returned, the Header is
\* the row at startRow with each non-absent value in its trimmed string
\* form, lowercased whenever lowerCaseHeaders is set, and that row was not
\* passed to onRecord.
C24_HeaderRowBecomesHeader ==
    (FullReadReturned /\ facade.options.hasHeader) =>
        /\ facade.header
             = ArrayHeader(HeaderOfRow(StartRowArray,
                                       facade.options.lowerCaseHeaders))
        /\ \A k \in 1..Len(facade.calls) :
             facade.calls[k].c = "onRecord" =>
                facade.calls[k].n # book[facade.options.sheetname].sr

\* C25: with hasHeader false, after a full read that returned, the Header is
\* the list of the schema's keys when a schema is given and otherwise
\* headerPrefix followed by the 1-based column number (lowercased if
\* requested), and the row at startRow was materialized like every other
\* visited row: rowsProcessed is the number of visited rows and onRecord, if
\* configured, was called for startRow.
C25_NoHeaderRow ==
    (FullReadReturned /\ ~facade.options.hasHeader) =>
        LET o == facade.options
            name(i) == o.headerPrefix \o NumberToString(i)
        IN  /\ ~facade.header.isNull
            /\ o.schema.given =>
                 facade.header.cols
                    = [k \in 1..Len(o.schema.map) |->
                         JsString(o.schema.map[k].key)]
            /\ ~o.schema.given =>
                 facade.header.cols
                    = [i \in 1..Len(StartRowArray) |->
                         JsString(IF o.lowerCaseHeaders
                                  THEN ToLowerCase(name(i)) ELSE name(i))]
            /\ facade.rowsProcessed = Len(Visited)
            /\ o.onRecord =>
                 \E k \in 1..Len(facade.calls) :
                    /\ facade.calls[k].c = "onRecord"
                    /\ facade.calls[k].n = book[o.sheetname].sr

\* reached: a full read without header row and without schema, with a custom
\* prefix and lowerCaseHeaders, named its first column "h_1" and gave the
\* row at startRow to onRecord
C25_Witness ==
    /\ FullReadReturned
    /\ ~facade.options.hasHeader
    /\ ~facade.options.schema.given
    /\ facade.options.lowerCaseHeaders
    /\ facade.options.headerPrefix = <<"H", "_">>
    /\ facade.header.cols[1] = JsString(<<"h", "_", "1">>)
    /\ \E k \in 1..Len(facade.calls) :
        /\ facade.calls[k].c = "onRecord"
        /\ facade.calls[k].n = book[facade.options.sheetname].sr

\* reached: a full read without header row and with a schema took the
\* schema's keys as Header and gave the row at startRow to onRecord
C25_WitnessSchema ==
    /\ FullReadReturned
    /\ ~facade.options.hasHeader
    /\ facade.options.schema.given
    /\ Len(facade.header.cols) = 2
    /\ \E k \in 1..Len(facade.calls) :
        /\ facade.calls[k].c = "onRecord"
        /\ facade.calls[k].n = book[facade.options.sheetname].sr

\* the Header that a read of the named sheet resolves
ExpectedHeader ==
    IF facade.options.hasHeader
    THEN NormalizeHeader(StartRowArray,
                         ~facade.options.schema.given
                            /\ facade.options.lowerCaseHeaders)
    ELSE IF facade.options.schema.given
    THEN SchemaKeys(facade.options.schema)
    ELSE ArbitraryHeader(StartRowArray, facade.options.headerPrefix,
                         facade.options.lowerCaseHeaders)

\* the schema has an entry for every Header column
SchemaComplete ==
    /\ facade.options.schema.given
    /\ \A k \in 1..Len(ExpectedHeader) :
        HasKey(facade.options.schema.map, PropertyKey(ExpectedHeader[k]))

\* the value that the claim describes for a cell under a schema entry
CastValue(cast, cell) ==
    LET value == IF cell.t = "undefined" THEN JsString(<<>>) ELSE cell
    IN  IF cast = "none" THEN value
        ELSE IF cast = "Number" THEN ToNumber(value)
        ELSE IF cast = "String" THEN ToStringCast(value)
        ELSE IF cast = "Date" THEN TryConvertDate(value, FALSE)
        ELSE CustomCast(value)

\* the Record that the claim describes for a row under a complete schema:
\* the properties of the first n Header columns
RECURSIVE SchemaRecord(_, _)
SchemaRecord(row, n) ==
    IF n = 0 THEN <<>>
    ELSE LET meta == Get(facade.options.schema.map,
                         PropertyKey(ExpectedHeader[n]))
         IN  Put(SchemaRecord(row, n - 1), meta.prop,
                 CastValue(meta.cast, RowAt(row, n)))

\* the rows that a full read materializes as data, in visiting order
DataRows ==
    SelectSeq(Visited,
              LAMBDA i : ~(facade.options.hasHeader
                            /\ i = book[facade.options.sheetname].sr))

\* C26: in a forward full read with onRecord and a schema that has an entry
\* for every Header column, the read returns and onRecord got, for each data
\* row in order, the Record with one property per Header column, named by
\* the entry's prop and holding the cell (absent coerced to "") passed
\* through the entry's cast: as is, Number, String, tryConvertDate, or the
\* caller's function.
C26_SchemaRecords ==
    (/\ facade.made
     /\ lastOp.op = "facade.read"
     /\ ~facade.options.backwards
     /\ facade.options.onRecord
     /\ SchemaComplete) =>
        /\ FullReadReturned
        /\ Len(CallsOf("onRecord")) = Len(DataRows)
        /\ \A k \in 1..Len(DataRows) :
            /\ CallsOf("onRecord")[k].n = DataRows[k]
            /\ CallsOf("onRecord")[k].obj
                 = SchemaRecord(RowArray(facade.values, facade.options.sheetname,
                                         DataRows[k]),
                                Len(ExpectedHeader))

\* a forward full read with an onError function and a schema that lacks an
\* entry for some Header column, on a sheet with at least one data row
IncompleteSchemaRead ==
    /\ facade.made
    /\ lastOp.op = "facade.read"
    /\ ~facade.options.backwards
    /\ facade.options.onError
    /\ facade.options.schema.given
    /\ ~SchemaComplete
    /\ book[facade.options.sheetname].er > book[facade.options.sheetname].sr

\* C27: a read whose schema lacks an entry for some Header column reports
\* one SchemaMappingError: onError is invoked exactly once, with the
\* "#ERR_SCHEMA" message.
C27_OneSchemaError ==
    IncompleteSchemaRead =>
        /\ Len(CallsOf("onError")) = 1
        /\ CallsOf("onError")[1].txt = "#ERR_SCHEMA"

\* the Record that the claim describes for a row without a schema: one key
\* per Header column, for the first n columns
RECURSIVE HeaderRecord(_, _)
HeaderRecord(row, n) ==
    IF n = 0 THEN <<>>
    ELSE LET key == PropertyKey(ExpectedHeader[n])
         IN  Put(HeaderRecord(row, n - 1),
                 IF facade.options.lowerCaseHeaders THEN ToLowerCase(key)
                 ELSE key,
                 RowAt(row, n))

\* C28: in a full read without schema and with onRecord, forwards or
\* backwards, the read returns and onRecord got, for each data row in
\* visiting order, the Record with one key per Header column (lowercased if
\* requested) holding the row's cell at the same position.
C28_HeaderRecords ==
    (/\ facade.made
     /\ lastOp.op = "facade.read"
     /\ facade.options.onRecord
     /\ ~facade.options.schema.given) =>
        /\ FullReadReturned
        /\ Len(CallsOf("onRecord")) = Len(DataRows)
        /\ \A k \in 1..Len(DataRows) :
            /\ CallsOf("onRecord")[k].n = DataRows[k]
            /\ CallsOf("onRecord")[k].obj
                 = HeaderRecord(RowArray(facade.values,
                                         facade.options.sheetname,
                                         DataRows[k]),
                                Len(ExpectedHeader))

\* C29: the facade loads its sheet once, in read() or in createReader(), and
\* whatever reads follow on that load, onHeader is invoked at most once.
C29_HeaderOnce ==
    facade.made => Len(CallsOf("onHeader")) <= 1

\* the calls that the facade made on the sink, in order
SinkCalls ==
    SelectSeq(facade.calls, LAMBDA x : x.c \in {"write", "end", "close"})

\* C30: after a full read to a JSON output that returned, the sink saw the
\* header marker exactly once and first, then the records, one per
\* materialized data row, then exactly one finalize, and no record after it.
C30_SinkOrder ==
    (/\ FullReadReturned
     /\ facade.options.output
     /\ facade.options.format = "json") =>
        LET sink == SinkCalls
            markers == { k \in 1..Len(sink) : sink[k].txt = "[" }
            ends == { k \in 1..Len(sink) : sink[k].c = "end" }
            records == { k \in 1..Len(sink) : sink[k].txt = "record" }
        IN  /\ markers = {1}
            /\ Cardinality(ends) = 1
            /\ Cardinality(records) = Len(DataRows)
            /\ \A k \in records : \A e \in ends : k < e

\* C31: after a full read that returned, onFinish was called exactly once,
\* with rowsProcessed as its second argument; its first argument is null
\* whenever the records went to an output sink or to onRecord, and the list
\* of the accumulated records, one per materialized data row, when they were
\* buffered in memory.
C31_FinishArguments ==
    FullReadReturned =>
        LET fin == CallsOf("onFinish")
            o == facade.options
        IN  /\ Len(fin) = 1
            /\ fin[1].n = facade.rowsProcessed
            /\ (o.output \/ o.onRecord) => fin[1].m = 1
            /\ (~o.output /\ ~o.onRecord /\ o.useMemoryForItems) =>
                 /\ fin[1].m = 0
                 /\ fin[1].items = facade.items
                 /\ Len(fin[1].items) = Len(DataRows)

\* C32: after a full read that returned, the rowsProcessed that onFinish
\* got is the number of rows that the cursor visited: one for the header row
\* exactly when hasHeader is true, and one for every materialized data row
\* (each of which went to onRecord once, when onRecord is configured).
C32_RowsProcessed ==
    FullReadReturned =>
        LET fin == CallsOf("onFinish")
            o == facade.options
        IN  /\ Len(fin) = 1
            /\ fin[1].n = Len(Visited)
            /\ fin[1].n = (IF o.hasHeader THEN 1 ELSE 0) + Len(DataRows)
            /\ o.onRecord =>
                 [k \in 1..Len(CallsOf("onRecord")) |->
                     CallsOf("onRecord")[k].n] = DataRows

\* reached: a backward full read with a header row, over a range that starts
\* below row 0, gave onFinish the number of the rows visited, the header row
\* and two data rows
C32_Witness ==
    /\ FullReadReturned
    /\ facade.options.hasHeader
    /\ facade.options.backwards
    /\ facade.options.onRecord
    /\ book[facade.options.sheetname].sr > 0
    /\ Len(CallsOf("onRecord")) = 2
    /\ CallsOf("onFinish")[1].n = 3

\* reached: a forward full read without header row gave onFinish the number
\* of the rows visited, all of them data rows
C32_WitnessNoHeader ==
    /\ FullReadReturned
    /\ ~facade.options.hasHeader
    /\ ~facade.options.backwards
    /\ Len(Visited) = MaxRow + 1
    /\ CallsOf("onFinish")[1].n = MaxRow + 1

\* C33: a full read with an onCell function and no schema returns, having
\* called onCell once for every 'cell' event of the cursor with the event's
\* row and column; every stored cell of a visited row has exactly one such
\* event, fired before the row's 'record' event, and the read went on to the
\* end of the sheet, where onFinish was called.
C33_OnCellEveryCell ==
    (/\ facade.made
     /\ lastOp.op = "facade.read"
     /\ facade.options.onCell
     /\ ~facade.options.schema.given) =>
        LET cells == SelectSeq(log, LAMBDA e : e.ev = "cell")
            s == facade.options.sheetname
        IN  /\ FullReadReturned
            /\ [k \in 1..Len(CallsOf("onCell")) |->
                    <<CallsOf("onCell")[k].n, CallsOf("onCell")[k].m>>]
                 = [k \in 1..Len(cells) |-> <<cells[k].a, cells[k].b>>]
            /\ \A p \in 1..Len(log) :
                 IsRecord(log[p]) =>
                    \A c \in book[s].sc..book[s].ec :
                        Stored(s, log[p].a, c) =>
                            /\ Cardinality({q \in 1..Len(log) :
                                 log[q] = Ev("cell", log[p].a, c)}) = 1
                            /\ \E q \in 1..(p - 1) :
                                 log[q] = Ev("cell", log[p].a, c)
            /\ Len(CallsOf("onFinish")) = 1

\* --------------------------------------------------------- claims on xldates
\* getUTCFullYear, getUTCMonth + 1, getUTCDate and getUTCHours of the Date
\* that lies h hours after 1970-01-01T00:00:00Z, in the proleptic Gregorian
\* calendar
UTCFields(h) ==
    LET z == (h \div 24) + 719468
        era == z \div 146097
        doe == z - era * 146097
        yoe == (doe - doe \div 1460 + doe \div 36524 - doe \div 146096)
                    \div 365
        doy == doe - (365 * yoe + yoe \div 4 - yoe \div 100)
        mp == (5 * doy + 2) \div 153
        d == doy - (153 * mp + 2) \div 5 + 1
        m == IF mp < 10 THEN mp + 3 ELSE mp - 9
        y == yoe + era * 400 + (IF m <= 2 THEN 1 ELSE 0)
    IN  [year |-> y, month |-> m, day |-> d, hours |-> h % 24]

\* C34: for every integer serial of the range, parseDate(serial, epoch1904)
\* is the instant (serial + (1462 if epoch1904 else 0) - 25569) * 86400000
\* + 43200000 milliseconds after the Unix epoch (both terms are whole
\* hours, in which the Date is counted), so that parseDate(s, true) is
\* parseDate(s + 1462, false), every result falls on 12:00:00 UTC, and
\* parseDate(1, false) is 1899-12-31T12:00:00Z.
C34_ParseDateValue ==
    date.fn = "parseDate" =>
        LET d == date.value.n + (IF date.epoch1904 THEN 1462 ELSE 0) - 25569
        IN  /\ 86400000 % hour = 0
            /\ 43200000 % hour = 0
            /\ date.result
                 = JsDate(d * (86400000 \div hour) + 43200000 \div hour)
            /\ date.epoch1904 =>
                 date.result = ParseDate(date.value.n + 1462, FALSE)
            /\ UTCFields(date.result.n).hours = 12
            /\ (date.value.n = 1 /\ ~date.epoch1904) =>
                 UTCFields(date.result.n)
                    = [year |-> 1899, month |-> 12, day |-> 31, hours |-> 12]

\* reached: parseDate(1, false) gave noon of 1899-12-31
C34_Witness ==
    /\ date.fn = "parseDate"
    /\ date.value = JsNumber(1)
    /\ ~date.epoch1904
    /\ date.result.t = "date"
    /\ UTCFields(date.result.n)
         = [year |-> 1899, month |-> 12, day |-> 31, hours |-> 12]

\* reached: parseDate(0, true) gave noon of 1904-01-01, the day that serial
\* 1462 names without the flag
C34_Witness1904 ==
    /\ date.fn = "parseDate"
    /\ date.value = JsNumber(0)
    /\ date.epoch1904
    /\ UTCFields(date.result.n)
         = [year |-> 1904, month |-> 1, day |-> 1, hours |-> 12]

\* C35: tryConvertDate of a string that has no integer at its head and is
\* no calendar string, such as "not-a-date" or the empty string, returns
\* that same string, never an invalid date.
C35_FailureReturnsInput ==
    (/\ date.fn = "tryConvertDate"
     /\ date.value.t = "string"
     /\ ParseInt(date.value.s).t = "NaN"
     /\ DateParse(date.value.s).t = "NaN") =>
        /\ date.result = date.value
        /\ date.result.t # "InvalidDate"

\* ------------------------------------------------- more claims on the cursor
\* the last call was readAllSheets on a live cursor, without an onsheet
\* abort, and its record callback returned a truthy value for a row it got
RecordAborted ==
    /\ ReadAllSheetsCalled
    /\ lastOp.i \in {NoSheetCb, NumSheets + 1}
    /\ lastOp.abortAt # NeverAbort
    /\ \E p \in 1..Len(log) : log[p] = Ev("record", lastOp.abortAt, 0)

\* C36: in readAllSheets, when the record callback returns a truthy value on
\* a row of sheet k, that row is the last row read (no further row of sheet
\* k, no load and no row of a later sheet), the total returned is the sum of
\* the readAll counts of the sheets before k plus the number of rows visited
\* in k, and abortRequested is false on return.
C36_RecordAbortStopsSheets ==
    RecordAborted =>
        LET k == Len(LoadedSheets)
        IN  /\ LoadedSheets = Upto(1, k)
            /\ \A j \in 1..(k - 1) : lastOp.abortAt \notin
                    { SheetVisited(j)[i] : i \in 1..Len(SheetVisited(j)) }
            /\ SheetVisited(k)[Len(SheetVisited(k))] = lastOp.abortAt
            /\ Cardinality({ i \in 1..Len(SheetVisited(k)) :
                                SheetVisited(k)[i] = lastOp.abortAt }) = 1
            /\ sheet = k
            /\ ret = NumVal(SumCounts(k - 1) + Len(SheetVisited(k)))
            /\ ~abortRequested

\* C38: on a live cursor whose rowIndex lies in [startRow, endRow], the
\* current property returns the row of the loaded sheet at rowIndex, whatever
\* calls came before: never a row read at another index or from a sheet
\* loaded earlier.
C38_CurrentIsRowAtIndex ==
    (/\ lastOp.op = "current"
     /\ Loaded
     /\ rowIndex >= startRow
     /\ rowIndex <= endRow) =>
        ret = RowVal(RowCells(sheet, rowIndex))

\* ---------------------------------------------- more claims on the facade
\* C37: when the facade's full read returns or throws (the process has not
\* ended), the sheet reader that iterate created has been destroyed; a read
\* that did not get to its 'end' event was stopped by an exception, which
\* the caller gets, and a read that got there returns normally.
C37_ReadReleasesCursor ==
    (facade.made /\ lastOp.op = "facade.read" /\ ~facade.exited) =>
        /\ destroyed
        /\ sheet = NullSheet
        /\ log # <<>>
        /\ log[Len(log)].ev # "end" =>
                ret \in {ThrowVal("TypeError"), ThrowVal("ReferenceError")}
        /\ log[Len(log)].ev = "end" => ret = UndefVal

\* reached: a full read resolved its header, then a cast threw on the first
\* data row; the caller got the TypeError and the reader is destroyed
C37_Witness ==
    /\ facade.made
    /\ lastOp.op = "facade.read"
    /\ ret = ThrowVal("TypeError")
    /\ Len(CallsOf("onHeader")) = 1
    /\ log[Len(log)].ev = "record"
    /\ destroyed
    /\ sheet = NullSheet

\* reached: a full read returned and the reader is destroyed
C37_WitnessReturned ==
    /\ FullReadReturned
    /\ log[Len(log)].ev = "end"
    /\ destroyed

\* C39: in a full read with an onRecord function that returned without an
\* error, every row of the sheet's declared range was visited exactly once,
\* onRecord got every data row, and the read ended with the 'end' event and
\* one onFinish call, whether onRecord returns a truthy value or not.
C39_OnRecordNeverAborts ==
    (FullReadReturned /\ facade.options.onRecord) =>
        LET s == facade.options.sheetname
        IN  /\ \A r \in book[s].sr..book[s].er :
                 Cardinality({ k \in 1..Len(Visited) : Visited[k] = r }) = 1
            /\ Len(Visited) >= book[s].er - book[s].sr + 1
            /\ Len(CallsOf("onRecord")) = Len(DataRows)
            /\ log[Len(log)].ev = "end"
            /\ Len(CallsOf("onFinish")) = 1

\* reached: onRecord returned a truthy value for each of two data rows of a
\* sheet with a header row, and the read went on to its end
C39_Witness ==
    /\ FullReadReturned
    /\ facade.options.onRecord
    /\ facade.options.onRecordReturns
    /\ facade.options.hasHeader
    /\ Len(CallsOf("onRecord")) = 2
    /\ Len(Visited) = 3
    /\ Len(CallsOf("onFinish")) = 1

====
